---- MODULE Spec2Model ----
(***************************************************************************)
(* A model of the paper-search service's ingestion and fan-out pipeline:   *)
(*   - the message-driven consumer (app/services/messaging/consumer.py,    *)
(*     handlers.py, connection.py): SpecConsumer;                          *)
(*   - the multi-source search orchestrator and the content enforcer       *)
(*     (app/services/websearch/search_orchestrator.py,                     *)
(*     app/services/pdf_processor.py): SpecSearch.                         *)
(* Each action is one stretch of code between two suspension points of the *)
(* event loop (an await on a collaborator); what the collaborators answer  *)
(* is drawn from small sets.                                               *)
(***************************************************************************)
EXTENDS Integers, Sequences, FiniteSets, TLC

VARIABLES
    \* ---- consumer (ScholarAIConsumer, RabbitMQConnection, handler) ----
    c_pc,          \* position of start(): init, connected, setup, waiting, handling, exited, failed
    is_running,    \* ScholarAIConsumer.is_running
    is_connected,  \* RabbitMQConnection.is_connected
    is_setup,      \* RabbitMQConnection.is_setup
    chan_open,     \* the channel/connection objects exist and are open
    handler_cm,    \* WebSearchMessageHandler.connection_manager is set
    stop_pc,       \* position of a stop() call: idle, closing
    h_pc,          \* position of handle_message: idle, run, publish
    cur,           \* the delivery last taken from the queue and what was done to it
    delivered,     \* number of deliveries taken from the queue
    \* ---- one search_papers invocation (MultiSourceSearchOrchestrator) ----
    s_pc,          \* idle, dispatch, refine, enrich, enforce, complete, raised;
                   \* for one fan-out alone: fan_idle, fan_out, fan_done
    s_target,      \* target_size
    s_terms,       \* query_terms
    s_queries,     \* search_queries of the current round
    s_round,       \* round_num
    s_qidx,        \* index in s_queries of the query being dispatched
    prov,          \* per active source: its _safe_source_search task
    f_all,         \* what the last _search_all_sources call returned
    f_order,       \* the sources that answered with papers, in the order they ended
    d_papers,      \* deduplication engine: the unique papers, in discovery order
    d_seen,        \* deduplication engine: the identity keys seen
    d_dups,        \* deduplication engine: duplicates rejected
    s_cands,       \* the candidates (ranked once enrichment has returned)
    s_kept,        \* process_papers_batch_parallel: all_processed_papers
    s_bi,          \* process_papers_batch_parallel: start index of the next batch
    s_enfRaised,   \* the enforcement call raised
    s_result,      \* what search_papers returned
    stop_at,       \* where the consumer was (c_pc) when stop() was first called
    r_call,        \* _rank_papers alone: the call in hand
    d_log,         \* the engine alone: the add_papers calls since reset
    runs,          \* requests of the search endpoint on the one shared agent
    b_call,        \* process_papers_batch_parallel alone: the call in hand
    e_call,        \* process_papers_batch_parallel task by task, and the store
    m_call         \* the handler factory, and the delivery _process_message routes

cvars == <<c_pc, is_running, is_connected, is_setup, chan_open, handler_cm,
           stop_pc, h_pc, cur, delivered, stop_at>>

svars == <<s_pc, s_target, s_terms, s_queries, s_round, s_qidx, prov, f_all, f_order,
           d_papers, d_seen, d_dups, s_cands, s_kept, s_bi, s_enfRaised,
           s_result>>

\* state of the specifications of single parts other than ranking and the engine
ovars == <<runs, b_call, e_call, m_call>>

hvars == <<r_call, d_log, ovars>>

vars == <<cvars, svars, hvars>>

-----------------------------------------------------------------------------
(* Bounds of the model.                                                    *)

\* deliveries the broker hands to one consumer
MaxDeliveries == 2

\* active sources (the registry holds up to twelve)
NumSources == 2

\* the largest target_size requested
MaxTarget == 1

\* add_papers calls in one session of the engine
MaxCalls == 2

\* requests of the search endpoint at one time
MaxRequests == 2

\* the largest batch_size process_papers_batch_parallel is called with
MaxBatchSize == 3

\* calls of process_papers_batch_parallel on one durable store
MaxEnforceCalls == 2

\* longest routing key of a delivery
MaxKeyLen == 3

-----------------------------------------------------------------------------
(* Configuration (SearchConfig, and the literals of search_papers).        *)

MaxSearchRounds == 2
MaxRateLimitRetries == 1
PapersPerSource == 2
MaxRefinedQueries == 3
BatchSize == 8

-----------------------------------------------------------------------------
(* Delivery bodies.  A body is described by what decoding it gives:        *)
(*   kind   bad_utf8, bad_json, or the JSON value's type: null, false,     *)
(*          true, zero, num (non-zero number), estr (""), str, elist ([]), *)
(*          list (non-empty), obj                                          *)
(*   names  which of the required field names occur in it: as keys (obj),  *)
(*          as elements (list) or as substrings (str)                      *)
(*   other  obj only: it has some other key                                *)
(*   qt     obj only: the value under "queryTerms": absent, null, str,     *)
(*          list0 ([]), list1 (a non-empty list)                           *)

RequiredFields == {"projectId", "queryTerms"}

Body(kind, names, other, qt) ==
    [kind |-> kind, names |-> names, other |-> other, qt |-> qt]

ScalarBodies ==
    { Body(k, {}, FALSE, "absent") :
        k \in {"bad_utf8", "bad_json", "null", "false", "true", "zero", "num",
               "estr", "elist"} }

TextBodies ==
    { Body(k, ns, FALSE, "absent") : k \in {"str", "list"}, ns \in SUBSET RequiredFields }

ObjectBodies ==
    { b \in [kind : {"obj"}, names : SUBSET RequiredFields, other : BOOLEAN,
             qt : {"absent", "null", "str", "list0", "list1"}] :
        ("queryTerms" \in b.names) <=> (b.qt # "absent") }

Bodies == ScalarBodies \cup TextBodies \cup ObjectBodies

\* the empty object {}
IsEmptyObject(b) == b.kind = "obj" /\ b.names = {} /\ ~b.other

\* a body that does not decode to a request object
IsMalformed(b) == b.kind # "obj" \/ IsEmptyObject(b)

-----------------------------------------------------------------------------
(* Exceptions, described by their class and by what their text contains.   *)

Exc(type, noAttrText, namesAttrErr) ==
    [type |-> type, noAttrText |-> noAttrText, namesAttrErr |-> namesAttrErr]

\* 'str' object has no attribute 'get'
AttrErrStd == Exc("AttributeError", TRUE, FALSE)
\* an AttributeError raised with a text of its own
AttrErrCustom == Exc("AttributeError", FALSE, FALSE)
\* argument of type 'int' is not iterable
TypeErr == Exc("TypeError", FALSE, FALSE)
\* a transient failure (network, timeout)
OtherErr == Exc("Other", FALSE, FALSE)
\* a transient failure whose text quotes an AttributeError
OtherErrQuoting == Exc("Other", FALSE, TRUE)
\* the channel is closed: what ack() and reject() raise then
ChannelErr == Exc("ChannelClosed", FALSE, FALSE)

\* no exception
NoExc == Exc("none", FALSE, FALSE)

\* what process_request may raise
ProcessExcs == {AttrErrStd, AttrErrCustom, TypeErr, OtherErr, OtherErrQuoting}

-----------------------------------------------------------------------------
(* WebSearchMessageHandler: the pure parts.                                *)

\* _parse_message: the decoded value, or None (FALSE here) when the body is
\* not UTF-8 or not JSON
ParseMessage(b) == b.kind \notin {"bad_utf8", "bad_json"}

\* Python truth of the decoded value: "if not message_data"
Truthy(b) ==
    /\ b.kind \notin {"null", "false", "zero", "estr", "elist"}
    /\ ~IsEmptyObject(b)

\* _validate_websearch_message: valid, invalid, or the exception it raises
ValidateWebsearchMessage(b) ==
    IF b.kind \in {"true", "num"}
    THEN [res |-> "raise", exc |-> TypeErr]           \* "projectId" not in 5
    ELSE IF b.names # RequiredFields
    THEN [res |-> "invalid", exc |-> OtherErr]        \* a required field is missing
    ELSE IF b.kind \in {"str", "list"}
    THEN [res |-> "raise", exc |-> AttrErrStd]        \* message_data.get
    ELSE IF b.qt = "list1"
    THEN [res |-> "valid", exc |-> OtherErr]
    ELSE [res |-> "invalid", exc |-> OtherErr]        \* not a list, or empty

\* handle_message, except clause: requeue unless the text of the exception
\* contains "object has no attribute" or "AttributeError"
ShouldRequeue(e) == ~(e.noAttrText \/ e.namesAttrErr)

-----------------------------------------------------------------------------
(* Events recorded for the delivery in hand: the lifecycle operations      *)
(* invoked on it (ok: the call returned; otherwise it raised), the         *)
(* orchestrator run ("run": ok when it returned, otherwise it raised) and  *)
(* the publish ("publish": published; "publish_raised": exchange.publish   *)
(* raised; "publish_refused": publish_message found no connection).        *)

Ev(ev, ok) == [ev |-> ev, ok |-> ok]

LifecycleOps == {"ack", "reject_requeue", "reject_discard"}

Reject(requeue, open) ==
    Ev(IF requeue THEN "reject_requeue" ELSE "reject_discard", open)

\* the lifecycle operations invoked on a delivery, in order
OpsOf(events) == SelectSeq(events, LAMBDA e : e.ev \in LifecycleOps)

\* A stretch of handling ends in one of: "ended" (_process_message returned),
\* "run" / "publish" (suspended in that await), "crashed" (the exception left
\* _process_message and the consume loop).
\* exc is the exception that reached handle_message's except clause.
Outcome(events, next, exc) == [events |-> events, next |-> next, exc |-> exc]

\* mutant: the exception goes on to _process_message after the reject
ExceptPathRaisesOn(e, open) ==
    IF open
    THEN Outcome(<<Reject(ShouldRequeue(e), TRUE), Reject(TRUE, TRUE)>>, "ended", e)
    ELSE Outcome(<<Reject(ShouldRequeue(e), FALSE), Reject(TRUE, FALSE)>>, "crashed", e)

\* handle_message's except clause, and _process_message's when the reject
\* itself raises
ExceptPath(e, open) ==
    IF open
    THEN Outcome(<<Reject(ShouldRequeue(e), TRUE)>>, "ended", e)
    ELSE Outcome(<<Reject(ShouldRequeue(e), FALSE), Reject(TRUE, FALSE)>>, "crashed", e)

\* message.ack() and return True
AckPath(open) ==
    IF open
    THEN Outcome(<<Ev("ack", TRUE)>>, "ended", NoExc)
    ELSE LET x == ExceptPath(ChannelErr, FALSE)
         IN  Outcome(<<Ev("ack", FALSE)>> \o x.events, x.next, x.exc)

\* handle_message from its start to its first suspension
HandleStart(b, open) ==
    IF ~ParseMessage(b) \/ ~Truthy(b)
    THEN Outcome(<<>>, "ended", NoExc)                 \* return False
    ELSE LET v == ValidateWebsearchMessage(b) IN
         CASE v.res = "raise"   -> ExceptPath(v.exc, open)
           [] v.res = "invalid" ->
                IF open
                THEN Outcome(<<Reject(FALSE, TRUE)>>, "ended", NoExc)
                ELSE LET x == ExceptPath(ChannelErr, FALSE)
                     IN  Outcome(<<Reject(FALSE, FALSE)>> \o x.events, x.next, x.exc)
           [] OTHER             -> Outcome(<<>>, "run", NoExc)  \* process_request awaited

\* publish_message's guard: not connected, or no channel
CanPublish(connected, open) == connected /\ open

\* handle_message once process_request has returned, to its next suspension
AfterRun(cm, connected, open) ==
    IF ~cm
    THEN AckPath(open)
    ELSE IF ~CanPublish(connected, open)
    THEN LET a == AckPath(open)
         IN  Outcome(<<Ev("publish_refused", FALSE)>> \o a.events, a.next, a.exc)
    ELSE Outcome(<<>>, "publish", NoExc)

\* handle_message once exchange.publish has returned (ok), or has raised and
\* publish_message has caught that and returned False
AfterPublish(ok, open) ==
    LET a == AckPath(open)
    IN  Outcome(<<Ev(IF ok THEN "publish" ELSE "publish_raised", ok)>> \o a.events,
                a.next, a.exc)

-----------------------------------------------------------------------------
(* The consumer's state after construction.                                *)

NoDelivery == [body |-> Body("null", {}, FALSE, "absent"), events |-> <<>>,
               exc |-> NoExc, taken |-> FALSE, ended |-> FALSE,
               dispatched |-> FALSE]

ConsumerInit ==
    /\ c_pc = "init"
    /\ is_running = FALSE
    /\ is_connected = FALSE
    /\ is_setup = FALSE
    /\ chan_open = FALSE
    /\ handler_cm = FALSE
    /\ stop_pc = "idle"
    /\ h_pc = "idle"
    /\ cur = NoDelivery
    /\ delivered = 0
    /\ stop_at = "never"

\* start()'s except clause: stop() is called and the exception re-raised
StartFails ==
    /\ c_pc' = "failed"
    /\ is_running' = FALSE
    /\ stop_pc' = "closing"

\* start(): connection_manager.connect()
Connect ==
    /\ c_pc = "init"
    /\ \E ok \in BOOLEAN :
        IF ok
        THEN /\ is_connected' = TRUE
             /\ chan_open' = TRUE
             /\ c_pc' = "connected"
             /\ UNCHANGED <<is_running, stop_pc>>
        ELSE /\ is_connected' = FALSE
             /\ UNCHANGED chan_open
             /\ StartFails
    /\ UNCHANGED <<is_setup, handler_cm, h_pc, cur, delivered>>
    /\ UNCHANGED <<stop_at, svars, hvars>>

\* a start() that goes on to consume whatever setup_queues answered
AfterSetupQueuesLenient(setup_success) == "setup"

\* start() after setup_queues: a false answer is raised as a RuntimeError
AfterSetupQueues(setup_success) == IF setup_success THEN "setup" ELSE "failed"

\* start(): connection_manager.setup_queues()
SetupQueues ==
    /\ c_pc = "connected"
    /\ \E ok \in BOOLEAN :
        LET setup_success == is_connected /\ chan_open /\ ok
        IN  /\ is_setup' = IF setup_success
                           THEN TRUE
                           ELSE is_setup /\ ~(is_connected /\ chan_open)
            /\ IF AfterSetupQueues(setup_success) = "setup"
               THEN /\ c_pc' = "setup"
                    /\ UNCHANGED <<is_running, stop_pc>>
               ELSE StartFails
    /\ UNCHANGED <<is_connected, chan_open, handler_cm, h_pc, cur, delivered>>
    /\ UNCHANGED <<stop_at, svars, hvars>>

\* _start_consuming up to the first wait on the queue iterator
StartConsuming ==
    /\ c_pc = "setup"
    /\ handler_cm' = TRUE
    /\ IF chan_open
       THEN /\ is_running' = TRUE
            /\ c_pc' = "waiting"
            /\ UNCHANGED stop_pc
       ELSE StartFails
    /\ UNCHANGED <<is_connected, is_setup, chan_open, h_pc, cur, delivered>>
    /\ UNCHANGED <<stop_at, svars, hvars>>

\* what a stretch of handling leaves behind
Settle(b, events, next, exc) ==
    /\ cur' = [body |-> b, events |-> events, exc |-> exc, taken |-> TRUE,
               ended |-> next \in {"ended", "crashed"}, dispatched |-> TRUE]
    /\ h_pc' = IF next \in {"run", "publish"} THEN next ELSE "idle"
    /\ IF next = "crashed"
       THEN StartFails
       ELSE /\ c_pc' = IF next = "ended" THEN "waiting" ELSE "handling"
            /\ UNCHANGED <<is_running, stop_pc>>

\* the queue iterator yields a delivery: the loop's is_running test, then
\* _process_message and handle_message to the first suspension
Receive ==
    /\ c_pc = "waiting"
    /\ delivered < MaxDeliveries
    /\ delivered' = delivered + 1
    /\ \E b \in Bodies :
        IF ~is_running
        THEN /\ cur' = [body |-> b, events |-> <<>>, exc |-> NoExc,
                        taken |-> TRUE, ended |-> TRUE, dispatched |-> FALSE]
             /\ c_pc' = "exited"
             /\ UNCHANGED <<is_running, stop_pc, h_pc>>
        ELSE LET r == HandleStart(b, chan_open)
             IN  Settle(b, r.events, r.next, r.exc)
    /\ UNCHANGED <<is_connected, is_setup, chan_open, handler_cm>>
    /\ UNCHANGED <<stop_at, svars, hvars>>

\* process_request returns its result
RunReturns ==
    /\ c_pc = "handling" /\ h_pc = "run"
    /\ LET r == AfterRun(handler_cm, is_connected, chan_open)
       IN  Settle(cur.body, cur.events \o <<Ev("run", TRUE)>> \o r.events,
                  r.next, r.exc)
    /\ UNCHANGED <<is_connected, is_setup, chan_open, handler_cm, delivered>>
    /\ UNCHANGED <<stop_at, svars, hvars>>

\* process_request raises
RunRaises ==
    /\ c_pc = "handling" /\ h_pc = "run"
    /\ \E e \in ProcessExcs :
        LET r == ExceptPath(e, chan_open)
        IN  Settle(cur.body, cur.events \o <<Ev("run", FALSE)>> \o r.events,
                   r.next, r.exc)
    /\ UNCHANGED <<is_connected, is_setup, chan_open, handler_cm, delivered>>
    /\ UNCHANGED <<stop_at, svars, hvars>>

\* exchange.publish returns, or raises (publish_message then returns False)
PublishDone ==
    /\ c_pc = "handling" /\ h_pc = "publish"
    /\ \E ok \in BOOLEAN :
        /\ ok => chan_open
        /\ LET r == AfterPublish(ok, chan_open)
           IN  Settle(cur.body, cur.events \o r.events, r.next, r.exc)
    /\ UNCHANGED <<is_connected, is_setup, chan_open, handler_cm, delivered>>
    /\ UNCHANGED <<stop_at, svars, hvars>>

\* stop(): is_running is cleared, then the handlers' cleanup is awaited
StopBegin ==
    /\ stop_pc = "idle"
    /\ is_running' = FALSE
    /\ stop_pc' = "closing"
    /\ stop_at' = IF stop_at = "never" THEN c_pc ELSE stop_at
    /\ UNCHANGED <<c_pc, is_connected, is_setup, chan_open, handler_cm, h_pc,
                   cur, delivered>>
    /\ UNCHANGED <<svars, hvars>>

\* stop(): connection_manager.close().  When channel.close() or
\* connection.close() raises, close() logs it and leaves both flags as they
\* were; the channel may or may not have been closed by then.
StopClose ==
    /\ stop_pc = "closing"
    /\ \E ok \in BOOLEAN :
        IF ok
        THEN /\ chan_open' = FALSE
             /\ is_connected' = FALSE
             /\ is_setup' = FALSE
        ELSE /\ is_connected \/ chan_open
             /\ chan_open' \in {chan_open, FALSE}
             /\ UNCHANGED <<is_connected, is_setup>>
    /\ stop_pc' = "idle"
    /\ UNCHANGED <<c_pc, is_running, handler_cm, h_pc, cur, delivered>>
    /\ UNCHANGED <<stop_at, svars, hvars>>

\* the queue iterator ends because its channel was closed: the loop is left
\* without a delivery, by the end of the iteration or by an exception that
\* start() answers with stop() and re-raises
IteratorEnds ==
    /\ c_pc = "waiting"
    /\ ~chan_open
    /\ \E raised \in BOOLEAN :
        IF raised
        THEN StartFails
        ELSE /\ c_pc' = "exited"
             /\ UNCHANGED <<is_running, stop_pc>>
    /\ UNCHANGED <<is_connected, is_setup, chan_open, handler_cm, h_pc, cur,
                   delivered>>
    /\ UNCHANGED <<stop_at, svars, hvars>>

ConsumerNext ==
    \/ Connect
    \/ SetupQueues
    \/ StartConsuming
    \/ Receive
    \/ RunReturns
    \/ RunRaises
    \/ PublishDone
    \/ StopBegin
    \/ StopClose
    \/ IteratorEnds

-----------------------------------------------------------------------------
(* Paper records.  Texts are sequences of characters.                      *)

Paper(doi, pid, title, abstract, url) ==
    [doi |-> doi, pid |-> pid, title |-> title, abstract |-> abstract,
     source |-> 0, pdfContentUrl |-> url]

\* a paper with a DOI
PaperA == Paper("10.1/abc", "", <<"a", "b">>, <<>>, "")
\* the same DOI in another case, under another title
PaperB == Paper("10.1/ABC", "", <<"A", "a">>, <<"a">>, "")
\* a paper with no DOI, no provider id and no title
PaperC == Paper("", "", <<>>, <<"b">>, "")
\* a paper known by its provider id, naming a content reference of its own
PaperD == Paper("", "x7", <<"b", "A">>, <<>>, "provider")
\* a record without DOI under the title of PaperA, in another case
PaperE == Paper("", "", <<"A", "B">>, <<"a">>, "")
\* a record without DOI under the title of PaperB
PaperF == Paper("", "", <<"a", "a">>, <<>>, "")

\* what the providers can return
PaperPool == {PaperA, PaperB, PaperC, PaperD}

\* the answers of a provider, each within the limit it was given
ProviderLists ==
    { <<>>, <<PaperA>>, <<PaperB>>, <<PaperC>>, <<PaperD>>,
      <<PaperA, PaperC>>, <<PaperB, PaperD>>, <<PaperC, PaperC>>,
      <<PaperF, PaperD>> }

\* the answers drawn in a whole search_papers run
RunLists == { <<>>, <<PaperA>>, <<PaperF, PaperD>> }

\* the query terms of a request
TermLists == { << <<"a">> >>, << <<"B">>, <<"a", "b">> >> }

\* the query terms search_papers can be called with: those of a validated
\* delivery, or req.queryTerms of the search endpoint, whose default is []
RequestTermLists == TermLists \cup { <<>> }

Min(a, b) == IF a < b THEN a ELSE b

-----------------------------------------------------------------------------
(* Deduplication engine (PaperDeduplicationService).                       *)

LowerChar(c) ==
    CASE c = "A" -> "a" [] c = "B" -> "b" [] c = "L" -> "l" [] c = "R" -> "r"
      [] OTHER -> c

Lower(text) == [i \in DOMAIN text |-> LowerChar(text[i])]

\* mutant: DOIs compared as they were given
NormalizeDoiVerbatim(doi) == doi

NormalizeDoi(doi) == IF doi = "10.1/ABC" THEN "10.1/abc" ELSE doi

\* mutant: an empty title is an identity key too
IdentityKeysEmptyTitle(p) ==
    (IF p.doi # "" THEN { [kind |-> "doi", id |-> NormalizeDoi(p.doi), text |-> <<>>] }
     ELSE {})
    \cup (IF p.pid # "" THEN { [kind |-> "pid", id |-> p.pid, text |-> <<>>] } ELSE {})
    \cup { [kind |-> "title", id |-> "", text |-> Lower(p.title)] }

\* the identity keys of a paper: normalized DOI, provider-native id,
\* normalized title
IdentityKeys(p) ==
    (IF p.doi # "" THEN { [kind |-> "doi", id |-> NormalizeDoi(p.doi), text |-> <<>>] }
     ELSE {})
    \cup (IF p.pid # "" THEN { [kind |-> "pid", id |-> p.pid, text |-> <<>>] } ELSE {})
    \cup (IF p.title # <<>> THEN { [kind |-> "title", id |-> "", text |-> Lower(p.title)] }
          ELSE {})

\* mutant: the engine keeps no identity keys
EngineForgetful(papers, seen, dups) == [papers |-> papers, seen |-> {}, dups |-> dups]

Engine(papers, seen, dups) == [papers |-> papers, seen |-> seen, dups |-> dups]

\* mutant: reset() leaves the engine as it is
ResetEngineKeeps(e) == e

\* reset(): no papers, no identifiers, no rejected duplicates
ResetEngine(e) == Engine(<<>>, {}, 0)

RECURSIVE AddPapersFrom(_, _, _)
AddPapersFrom(e, papers, i) ==
    IF i > Len(papers) THEN e
    ELSE LET p == papers[i]
             keys == IdentityKeys(p)
         IN  IF keys \cap e.seen # {}
             THEN AddPapersFrom(Engine(e.papers, e.seen, e.dups + 1), papers, i + 1)
             ELSE AddPapersFrom(Engine(Append(e.papers, p), e.seen \cup keys, e.dups),
                                papers, i + 1)

\* add_papers: the engine after the call
AddPapers(e, papers) == AddPapersFrom(e, papers, 1)

\* mutant: the rejected duplicates of a call are counted once
DedupStatsByCall(e) ==
    [unique_papers |-> Len(e.papers), total_identifiers |-> Cardinality(e.seen),
     duplicates_rejected |-> IF e.dups > 0 THEN 1 ELSE 0]

\* get_deduplication_stats
DedupStats(e) ==
    [unique_papers |-> Len(e.papers), total_identifiers |-> Cardinality(e.seen),
     duplicates_rejected |-> e.dups]

-----------------------------------------------------------------------------
(* Ranking (_rank_papers).                                                 *)

RECURSIVE CountFrom(_, _, _)
CountFrom(text, term, i) ==
    IF i + Len(term) - 1 > Len(text) THEN 0
    ELSE IF SubSeq(text, i, i + Len(term) - 1) = term
    THEN 1 + CountFrom(text, term, i + Len(term))
    ELSE CountFrom(text, term, i + 1)

\* str.count: the non-overlapping occurrences of term in text
Count(text, term) ==
    IF term = <<>> THEN Len(text) + 1 ELSE CountFrom(text, term, 1)

RECURSIVE SumCounts(_, _, _)
SumCounts(text, terms, i) ==
    IF i > Len(terms) THEN 0
    ELSE Count(text, Lower(terms[i])) + SumCounts(text, terms, i + 1)

\* score(p): term occurrences in the lowered title + " " + abstract
Score(p, terms) == SumCounts(Lower(p.title \o <<" ">> \o p.abstract), terms, 1)

\* mutant: x put ahead of the elements of its own score
InsertDescUnstable(acc, x, terms) ==
    LET ahead == { j \in 1..Len(acc) : Score(acc[j], terms) <= Score(x, terms) }
        at == IF ahead = {} THEN Len(acc) + 1
              ELSE CHOOSE j \in ahead : \A k \in ahead : j <= k
    IN  SubSeq(acc, 1, at - 1) \o <<x>> \o SubSeq(acc, at, Len(acc))

\* x put behind every element that scores at least as much
InsertDesc(acc, x, terms) ==
    LET ahead == { j \in 1..Len(acc) : Score(acc[j], terms) < Score(x, terms) }
        at == IF ahead = {} THEN Len(acc) + 1
              ELSE CHOOSE j \in ahead : \A k \in ahead : j <= k
    IN  SubSeq(acc, 1, at - 1) \o <<x>> \o SubSeq(acc, at, Len(acc))

RECURSIVE SortDesc(_, _, _)
SortDesc(papers, terms, n) ==
    IF n = 0 THEN <<>>
    ELSE InsertDesc(SortDesc(papers, terms, n - 1), papers[n], terms)

\* sorted(papers, key=score, reverse=True): stable
RankPapers(papers, terms) == SortDesc(papers, terms, Len(papers))

-----------------------------------------------------------------------------
(* Enrichment (PaperMetadataEnrichmentService.enrich_papers): additive, it *)
(* fills missing fields and removes no entry.                              *)

EnrichPapers(papers, fill) ==
    [i \in DOMAIN papers |->
        IF fill /\ papers[i].abstract = <<>>
        THEN [papers[i] EXCEPT !.abstract = <<"a", "b">>]
        ELSE papers[i]]

-----------------------------------------------------------------------------
(* Per-provider dispatch (_safe_source_search) and the fan-out             *)
(* (_search_all_sources).                                                  *)

Sources == 1..NumSources

\* a task: st is call (awaiting the client), sleep (backing off) or done;
\* outs: how each call of the client made so far ended;
\* failed: the dispatch ended without an answer of the client
Task(st, attempt, outs, res, failed) ==
    [st |-> st, attempt |-> attempt, outs |-> outs, calls |-> Len(outs),
     res |-> res, failed |-> failed]

NewTask == Task("call", 0, <<>>, <<>>, FALSE)

NewTasks == [s \in Sources |-> NewTask]

\* the texts str(e) of the errors a client raises
ErrorTexts ==
    { <<"4", "2", "9">>,
      <<"R", "a", "t", "e", " ", "L", "i", "m", "i", "t">>,
      <<"5", "0", "0">> }

\* what one call of the client can do
CallOutcomes ==
    { [kind |-> "ok", papers |-> l, text |-> <<>>] : l \in ProviderLists }
    \cup { [kind |-> "timeout", papers |-> <<>>, text |-> <<>>] }
    \cup { [kind |-> "error", papers |-> <<>>, text |-> x] : x \in ErrorTexts }

\* how a call ended, as the task's history keeps it
Ended(t, o) == Append(t.outs, [kind |-> o.kind, text |-> o.text])

\* mutant: the error's text is searched as it was given
IsRateLimitCaseSensitive(error) ==
    \/ Count(error, <<"r", "a", "t", "e", " ", "l", "i", "m", "i", "t">>) > 0
    \/ Count(error, <<"4", "2", "9">>) > 0

\* "rate limit" in error_str or "429" in error_str, error_str = str(e).lower()
IsRateLimit(error) ==
    LET error_str == Lower(error)
    IN  \/ Count(error_str, <<"r", "a", "t", "e", " ", "l", "i", "m", "i", "t">>) > 0
        \/ Count(error_str, <<"4", "2", "9">>) > 0

\* mutant: the provider's error leaves the dispatch and the fan-out
SafeSourceSearchRaising(t, o) ==
    CASE o.kind = "ok" -> Task("done", t.attempt, Ended(t, o), o.papers, FALSE)
      [] o.kind = "error" /\ IsRateLimit(o.text) /\ t.attempt < MaxRateLimitRetries ->
            Task("sleep", t.attempt, Ended(t, o), <<>>, FALSE)
      [] OTHER -> Task("raised", t.attempt, Ended(t, o), <<>>, TRUE)

\* mutant: every failed call is retried while retries remain
SafeSourceSearchRetryAll(t, o) ==
    CASE o.kind = "ok" -> Task("done", t.attempt, Ended(t, o), o.papers, FALSE)
      [] OTHER ->
            IF t.attempt < MaxRateLimitRetries
            THEN Task("sleep", t.attempt, Ended(t, o), <<>>, FALSE)
            ELSE Task("done", t.attempt, Ended(t, o), <<>>, TRUE)

\* _safe_source_search: the task once the client's call has ended with o
SafeSourceSearch(t, o) ==
    CASE o.kind = "ok" -> Task("done", t.attempt, Ended(t, o), o.papers, FALSE)
      [] o.kind = "timeout" -> Task("done", t.attempt, Ended(t, o), <<>>, TRUE)
      [] o.kind = "error" /\ IsRateLimit(o.text) ->
            IF t.attempt < MaxRateLimitRetries
            THEN Task("sleep", t.attempt, Ended(t, o), <<>>, FALSE)
            ELSE Task("done", t.attempt, Ended(t, o), <<>>, TRUE)
      [] OTHER -> Task("done", t.attempt, Ended(t, o), <<>>, TRUE)

Tag(papers, s) == [i \in DOMAIN papers |-> [papers[i] EXCEPT !.source = s]]

RECURSIVE CombineListedFrom(_, _, _)
CombineListedFrom(tasks, active_sources, i) ==
    IF i > Len(active_sources) THEN <<>>
    ELSE Tag(tasks[active_sources[i]].res, active_sources[i])
            \o CombineListedFrom(tasks, active_sources, i + 1)

\* _search_all_sources, after the gather, when the sources are listed in
\* active_sources in a given order
CombineListed(tasks, active_sources) == CombineListedFrom(tasks, active_sources, 1)

\* mutant: the answers are combined in the order the tasks ended (a task
\* that ended with no papers adds nothing wherever it stands)
CombineCompleted(tasks) == CombineListed(tasks, f_order)

RECURSIVE CombineFrom(_, _)
CombineFrom(tasks, s) ==
    IF s > NumSources THEN <<>>
    ELSE Tag(tasks[s].res, s) \o CombineFrom(tasks, s + 1)

\* _search_all_sources, after the gather: the answers in registry order,
\* each paper tagged with its source
CombineResults(tasks) == CombineFrom(tasks, 1)

\* mutant: the gather returns as soon as one task is done
AllSettledFirst == \E s \in Sources : prov[s].st = "done"

\* asyncio.gather(*search_tasks, return_exceptions=True) has every result
AllSettled == \A s \in Sources : prov[s].st = "done"

\* get_search_stats: the configuration and the engine's counters
GetSearchStats(e, ai_ready) ==
    LET dedup_stats == DedupStats(e)
    IN  [active_sources |-> Sources,
         papers_per_source |-> PapersPerSource,
         max_search_rounds |-> MaxSearchRounds,
         ai_enabled |-> ai_ready,
         unique_papers |-> dedup_stats.unique_papers,
         total_identifiers |-> dedup_stats.total_identifiers,
         duplicates_rejected |-> dedup_stats.duplicates_rejected]

-----------------------------------------------------------------------------
(* Content enforcement (PDFProcessorService).                              *)

\* what acquisition can come to for one paper
AcquisitionOutcomes == {"stored", "persisted", "nocontent", "persistfail", "exception"}

NoPaper == Paper("none", "none", <<>>, <<>>, "")

\* mutant: a paper whose upload failed is kept as it is
ProcessPaperPdfLenient(p, o) ==
    CASE o = "stored"      -> [p EXCEPT !.pdfContentUrl = "existing"]
      [] o = "persisted"   -> [p EXCEPT !.pdfContentUrl = "uploaded"]
      [] o = "persistfail" -> p
      [] OTHER             -> NoPaper

\* process_paper_pdf: the paper with its content reference, or None (NoPaper)
ProcessPaperPdf(p, o) ==
    CASE o = "stored"    -> [p EXCEPT !.pdfContentUrl = "existing"]
      [] o = "persisted" -> [p EXCEPT !.pdfContentUrl = "uploaded"]
      [] OTHER           -> NoPaper

\* mutant: a batch in which a paper failed yields nothing
BatchKeptAllOrNothing(batch, outcomes) ==
    IF \E i \in DOMAIN batch : ProcessPaperPdf(batch[i], outcomes[i]) = NoPaper
    THEN <<>>
    ELSE [i \in DOMAIN batch |-> ProcessPaperPdf(batch[i], outcomes[i])]

\* one batch of process_papers_batch_parallel: the results that are papers
BatchKept(batch, outcomes) ==
    LET results == [i \in DOMAIN batch |-> ProcessPaperPdf(batch[i], outcomes[i])]
    IN  SelectSeq(results, LAMBDA r : r # NoPaper)

\* mutant: no trimming to the target size
TruncateNever(papers, target) == papers

\* search_papers: "if final_count > target_size: final_papers[:target_size]"
Truncate(papers, target) ==
    IF Len(papers) > target THEN SubSeq(papers, 1, target) ELSE papers

\* mutant: the ranked candidates are returned when enforcement raises
OnEnforceFailureKeep(ranked) == ranked

\* mutant: the exception of the enforcement leaves search_papers
EnforceFailureEndPropagates(pc) == "raised"

\* search_papers after the except clause around the enforcement: it goes on
\* to the closing log lines and "return final_papers"
EnforceFailureEnd(pc) == "complete"

\* search_papers, except clause around the enforcement: the empty list
OnEnforceFailure(ranked) == <<>>

-----------------------------------------------------------------------------
(* search_papers.                                                          *)

IdleTasks == [s \in Sources |-> Task("done", 0, <<>>, <<>>, FALSE)]

SearchInit ==
    /\ s_pc = "idle"
    /\ s_target = 0
    /\ s_terms = <<>>
    /\ s_queries = <<>>
    /\ s_round = 0
    /\ s_qidx = 0
    /\ prov = IdleTasks
    /\ f_all = <<>>
    /\ f_order = <<>>
    /\ d_papers = <<>>
    /\ d_seen = {}
    /\ d_dups = 0
    /\ s_cands = <<>>
    /\ s_kept = <<>>
    /\ s_bi = 1
    /\ s_enfRaised = FALSE
    /\ s_result = <<>>

\* enhanced_target_size = int(target_size * 2.0)
EnhancedTarget(target) == 2 * target

RECURSIVE JoinFrom(_, _)
JoinFrom(terms, i) ==
    IF i > Len(terms) THEN <<>>
    ELSE IF i = Len(terms) THEN terms[i]
    ELSE terms[i] \o <<" ">> \o JoinFrom(terms, i + 1)

\* " ".join(query_terms)
JoinTerms(terms) == JoinFrom(terms, 1)

\* mutant: refined queries are asked for after the last round as well
RefineWantedLate(round_num) == round_num < MaxSearchRounds

\* "if round_num < self.config.max_search_rounds - 1"
RefineWanted(round_num) == round_num < MaxSearchRounds - 1

\* search_papers is called: the engine is reset and the first query dispatched
SearchStart ==
    /\ s_pc = "idle"
    /\ \E n \in 0..MaxTarget, terms \in RequestTermLists :
        /\ s_target' = n
        /\ s_terms' = terms
    /\ LET e == ResetEngine(Engine(d_papers, d_seen, d_dups))
       IN  d_papers' = e.papers /\ d_seen' = e.seen /\ d_dups' = e.dups
    /\ s_queries' = <<JoinTerms(s_terms')>>
    /\ s_round' = 0
    /\ s_qidx' = 1
    /\ s_pc' = "dispatch"
    /\ UNCHANGED <<prov, f_all, f_order, s_cands, s_kept, s_bi, s_enfRaised, s_result>>
    /\ UNCHANGED <<cvars, hvars>>

RECURSIVE RunTask(_, _, _)
\* a task run to its end; outs[i] is what the client's i-th call does
RunTask(t, outs, i) ==
    LET u == SafeSourceSearch(t, outs[i])
    IN  IF u.st = "sleep"
        THEN RunTask([u EXCEPT !.st = "call", !.attempt = @ + 1], outs, i + 1)
        ELSE u

\* how a task ended: what the gather is given
TaskEnd(t) == [st |-> t.st, res |-> t.res, failed |-> t.failed]

\* the ends a task can come to, over the answers of a whole run
FinalTasks ==
    LET outcomes == { o \in CallOutcomes : o.kind = "ok" => o.papers \in RunLists }
    IN  { TaskEnd(RunTask(NewTask, outs, 1)) :
            outs \in [1..(MaxRateLimitRetries + 1) -> outcomes] }

\* mutant: every unique paper is a candidate
CandidatesAll(papers, target) == papers

\* get_papers()[:enhanced_target_size]
Candidates(papers, target) ==
    SubSeq(papers, 1, Min(EnhancedTarget(target), Len(papers)))

\* the rounds are over: the candidates are taken and enrichment awaited
ToEnrich(papers) ==
    /\ s_cands' = Candidates(papers, s_target)
    /\ s_pc' = "enrich"
    /\ UNCHANGED <<s_queries, s_round, s_qidx>>

\* One query of a round: _search_all_sources (every source's task run to its
\* end, the tasks sharing no state), add_papers, then on to the next query,
\* to refinement, or out of the rounds.
QueryFanOut ==
    /\ s_pc = "dispatch"
    /\ \E tasks \in [Sources -> FinalTasks] :
        LET all == CombineResults(tasks)
            e == AddPapers(Engine(d_papers, d_seen, d_dups), all)
            more == /\ s_qidx >= Len(s_queries)
                    /\ Len(e.papers) < EnhancedTarget(s_target)
                    /\ RefineWanted(s_round)
        IN  \E ai_ready \in (IF more THEN BOOLEAN ELSE {FALSE}) :
            /\ d_papers' = e.papers /\ d_seen' = e.seen /\ d_dups' = e.dups
            /\ IF \E s \in Sources : tasks[s].st # "done"
               THEN /\ s_pc' = "raised"
                    /\ UNCHANGED <<s_queries, s_round, s_qidx, s_cands>>
               ELSE IF s_qidx < Len(s_queries)
               THEN /\ s_qidx' = s_qidx + 1
                    /\ UNCHANGED <<s_pc, s_queries, s_round, s_cands>>
               ELSE IF Len(e.papers) >= EnhancedTarget(s_target)
               THEN ToEnrich(e.papers)
               ELSE IF RefineWanted(s_round) /\ ai_ready /\ e.papers # <<>>
               THEN /\ s_pc' = "refine"
                    /\ UNCHANGED <<s_queries, s_round, s_qidx, s_cands>>
               ELSE ToEnrich(e.papers)
    /\ UNCHANGED <<s_target, s_terms, prov, f_all, f_order, s_kept, s_bi, s_enfRaised,
                   s_result>>
    /\ UNCHANGED <<cvars, hvars>>

RefinedQueries(k) ==
    SubSeq(<< <<"r", "1">>, <<"r", "2">>, <<"r", "3">>, <<"r", "4">> >>, 1, k)

\* generate_refined_queries returns k queries
RefineReturns ==
    /\ s_pc = "refine"
    /\ \E k \in 0..MaxRefinedQueries :
        IF k = 0
        THEN ToEnrich(d_papers)
        ELSE /\ s_queries' = RefinedQueries(k)
             /\ s_round' = s_round + 1
             /\ s_qidx' = 1
             /\ s_pc' = "dispatch"
             /\ UNCHANGED s_cands
    /\ UNCHANGED <<s_target, s_terms, prov, f_all, f_order, d_papers, d_seen, d_dups,
                   s_kept, s_bi, s_enfRaised, s_result>>
    /\ UNCHANGED <<cvars, hvars>>

\* generate_refined_queries raises: no refined queries
RefineRaises ==
    /\ s_pc = "refine"
    /\ ToEnrich(d_papers)
    /\ UNCHANGED <<s_target, s_terms, prov, f_all, f_order, d_papers, d_seen, d_dups,
                   s_kept, s_bi, s_enfRaised, s_result>>
    /\ UNCHANGED <<cvars, hvars>>

\* enrich_papers returns: ranking, then the enforcement call
EnrichReturns ==
    /\ s_pc = "enrich"
    /\ \E fill \in BOOLEAN :
        LET ranked == RankPapers(EnrichPapers(s_cands, fill), s_terms)
        IN  /\ s_cands' = ranked
            /\ IF ranked = <<>>
               THEN /\ s_pc' = "complete"      \* "if not papers: return papers"
                    /\ s_result' = Truncate(ranked, s_target)
               ELSE /\ s_pc' = "enforce"
                    /\ UNCHANGED s_result
    /\ s_kept' = <<>>
    /\ s_bi' = 1
    /\ UNCHANGED <<s_target, s_terms, s_queries, s_round, s_qidx, prov, f_all, f_order,
                   d_papers, d_seen, d_dups, s_enfRaised>>
    /\ UNCHANGED <<cvars, hvars>>

\* enrich_papers raises: nothing in search_papers catches it
EnrichRaises ==
    /\ s_pc = "enrich"
    /\ s_pc' = "raised"
    /\ UNCHANGED <<s_target, s_terms, s_queries, s_round, s_qidx, prov, f_all, f_order,
                   d_papers, d_seen, d_dups, s_cands, s_kept, s_bi, s_enfRaised,
                   s_result>>
    /\ UNCHANGED <<cvars, hvars>>

\* the gather of one batch of process_paper_pdf tasks returns
EnforceBatch ==
    /\ s_pc = "enforce"
    /\ LET last == Min(s_bi + BatchSize - 1, Len(s_cands))
           batch == SubSeq(s_cands, s_bi, last)
       IN  \E outcomes \in [DOMAIN batch -> AcquisitionOutcomes] :
            LET kept == s_kept \o BatchKept(batch, outcomes)
            IN  /\ s_kept' = kept
                /\ s_bi' = last + 1
                /\ IF last >= Len(s_cands)
                   THEN /\ s_pc' = "complete"
                        /\ s_result' = Truncate(kept, s_target)
                   ELSE UNCHANGED <<s_pc, s_result>>
    /\ UNCHANGED <<s_target, s_terms, s_queries, s_round, s_qidx, prov, f_all, f_order,
                   d_papers, d_seen, d_dups, s_cands, s_enfRaised>>
    /\ UNCHANGED <<cvars, hvars>>

\* the enforcement call itself raises
EnforceRaises ==
    /\ s_pc = "enforce"
    /\ s_enfRaised' = TRUE
    /\ s_result' = OnEnforceFailure(s_cands)
    /\ s_pc' = EnforceFailureEnd(s_pc)
    /\ UNCHANGED <<s_target, s_terms, s_queries, s_round, s_qidx, prov, f_all, f_order,
                   d_papers, d_seen, d_dups, s_cands, s_kept, s_bi>>
    /\ UNCHANGED <<cvars, hvars>>

SearchNext ==
    \/ SearchStart
    \/ QueryFanOut
    \/ RefineReturns
    \/ RefineRaises
    \/ EnrichReturns
    \/ EnrichRaises
    \/ EnforceBatch
    \/ EnforceRaises

-----------------------------------------------------------------------------
(* One fan-out, task by task: _search_all_sources(query, domain) and the   *)
(* add_papers that follows it, on an engine that already holds the papers  *)
(* of an earlier query.                                                    *)

FanOutFrame ==
    /\ UNCHANGED <<s_target, s_terms, s_queries, s_round, s_qidx, s_cands,
                   s_kept, s_bi, s_enfRaised, s_result>>
    /\ UNCHANGED <<cvars, hvars>>

\* the tasks are created and the gather awaited
FanStart ==
    /\ s_pc = "idle"
    /\ \E earlier \in RunLists :
        LET e == AddPapers(Engine(<<>>, {}, 0), Tag(earlier, 1))
        IN  d_papers' = e.papers /\ d_seen' = e.seen /\ d_dups' = e.dups
    /\ prov' = NewTasks
    /\ s_pc' = "fan_out"
    /\ f_order' = <<>>
    /\ UNCHANGED f_all
    /\ FanOutFrame

\* one call of a source's client ends
ProviderAnswers ==
    /\ s_pc = "fan_out"
    /\ \E s \in Sources, o \in CallOutcomes :
        /\ prov[s].st = "call"
        /\ prov' = [prov EXCEPT ![s] = SafeSourceSearch(prov[s], o)]
        /\ f_order' = IF prov'[s].st = "done" /\ prov'[s].res # <<>>
                       THEN Append(f_order, s) ELSE f_order
    /\ s_pc' = IF \E s \in Sources : prov'[s].st = "raised" THEN "raised" ELSE s_pc
    /\ UNCHANGED <<f_all, d_papers, d_seen, d_dups>>
    /\ FanOutFrame

\* the backoff sleep of a rate-limited source ends: the next attempt
ProviderWakes ==
    /\ s_pc = "fan_out"
    /\ \E s \in Sources :
        /\ prov[s].st = "sleep"
        /\ prov' = [prov EXCEPT ![s].st = "call", ![s].attempt = @ + 1]
    /\ UNCHANGED <<s_pc, f_all, f_order, d_papers, d_seen, d_dups>>
    /\ FanOutFrame

\* the gather returns: the answers are combined and merged
FanGather ==
    /\ s_pc = "fan_out"
    /\ AllSettled
    /\ LET all == CombineResults(prov)
           e == AddPapers(Engine(d_papers, d_seen, d_dups), all)
       IN  /\ f_all' = all
           /\ d_papers' = e.papers /\ d_seen' = e.seen /\ d_dups' = e.dups
    /\ s_pc' = "fan_done"
    /\ UNCHANGED <<prov, f_order>>
    /\ FanOutFrame

FanOutNext ==
    \/ FanStart
    \/ ProviderAnswers
    \/ ProviderWakes
    \/ FanGather

-----------------------------------------------------------------------------
(* _rank_papers alone: a call with any paper list and any query terms.     *)

NoCall == [op |-> "none", papers |-> <<>>, terms |-> <<>>, out |-> <<>>]

\* the paper lists handed to a ranking call: up to three papers, repeats too
RankLists ==
    {<<>>}
    \cup { <<p>> : p \in PaperPool }
    \cup { <<p, q>> : p \in PaperPool, q \in PaperPool }
    \cup { <<p, q, r>> : p \in PaperPool, q \in PaperPool, r \in PaperPool }

\* the query terms of a ranking call: none, an empty term, terms in either
\* case, a term of two characters, a term that ends in the joining blank
RankTermLists ==
    TermLists
    \cup { <<>>, << <<>> >>, << <<"A">> >>, << <<"b">>, <<"A">> >>,
           << <<"a", "a">> >>, << <<"b", " ">> >> }

\* _rank_papers is called
RankCall ==
    /\ r_call.op = "none"
    /\ \E l \in RankLists, t \in RankTermLists :
        r_call' = [op |-> "called", papers |-> l, terms |-> t, out |-> <<>>]
    /\ UNCHANGED <<cvars, svars, d_log, ovars>>

\* _rank_papers returns
RankReturns ==
    /\ r_call.op = "called"
    /\ r_call' = [r_call EXCEPT !.op = "ranked",
                                !.out = RankPapers(r_call.papers, r_call.terms)]
    /\ UNCHANGED <<cvars, svars, d_log, ovars>>

RankNext ==
    \/ RankCall
    \/ RankReturns

-----------------------------------------------------------------------------
(* The deduplication engine alone: add_papers calls since a reset.         *)

\* the lists handed to add_papers
DedupLists ==
    {<<>>}
    \cup { <<p>> : p \in PaperPool \cup {PaperE, PaperF} }
    \cup { <<PaperA, PaperA>>, <<PaperA, PaperB>>, <<PaperB, PaperA>>,
           <<PaperC, PaperC>>, <<PaperA, PaperC>>, <<PaperC, PaperD>>,
           <<PaperE, PaperF>>, <<PaperE, PaperA>>, <<PaperB, PaperF>>,
           <<PaperD, PaperE>>,
           <<PaperA, PaperB, PaperD>>, <<PaperC, PaperA, PaperC>> }

\* the engine of the session
CurrentEngine == Engine(d_papers, d_seen, d_dups)

\* add_papers returns the count of papers it added
AddedCount(e, papers) == Len(AddPapers(e, papers).papers) - Len(e.papers)

\* add_papers(papers) on the session's engine
AddPapersCall ==
    /\ Len(d_log) < MaxCalls
    /\ \E l \in DedupLists :
        LET e == AddPapers(CurrentEngine, l)
        IN  /\ d_papers' = e.papers
            /\ d_seen' = e.seen
            /\ d_dups' = e.dups
            /\ d_log' = Append(d_log, [papers |-> l,
                                       added |-> AddedCount(CurrentEngine, l),
                                       size |-> Len(e.papers)])
    /\ UNCHANGED <<cvars, r_call, ovars>>
    /\ UNCHANGED <<s_pc, s_target, s_terms, s_queries, s_round, s_qidx, prov,
                   f_all, f_order, s_cands, s_kept, s_bi, s_enfRaised, s_result>>

\* reset(): a new session
DedupReset ==
    /\ d_log # <<>>
    /\ d_papers' = <<>>
    /\ d_seen' = {}
    /\ d_dups' = 0
    /\ d_log' = <<>>
    /\ UNCHANGED <<cvars, r_call, ovars>>
    /\ UNCHANGED <<s_pc, s_target, s_terms, s_queries, s_round, s_qidx, prov,
                   f_all, f_order, s_cands, s_kept, s_bi, s_enfRaised, s_result>>

DedupNext ==
    \/ AddPapersCall
    \/ DedupReset

-----------------------------------------------------------------------------
(* process_papers_batch_parallel alone: a call with any paper list and any *)
(* batch size from 1 on.                                                   *)

NoBatchCall ==
    [op |-> "none", papers |-> <<>>, batch_size |-> 1, i |-> 0, outs |-> <<>>,
     all_processed_papers |-> <<>>, total_success |-> 0, total_discarded |-> 0,
     out |-> <<>>]

\* batch_success: the results of a batch that are papers
BatchSuccess(batch, outcomes) ==
    Cardinality({ j \in DOMAIN batch : ProcessPaperPdf(batch[j], outcomes[j]) # NoPaper })

\* mutant: only the tasks that raised are counted as discarded
BatchDiscardedRaisedOnly(batch, outcomes) ==
    Cardinality({ j \in DOMAIN batch : outcomes[j] = "exception" })

\* batch_discarded: the results of a batch that are an exception or None
BatchDiscarded(batch, outcomes) ==
    Cardinality({ j \in DOMAIN batch : ProcessPaperPdf(batch[j], outcomes[j]) = NoPaper })

\* the lists process_papers_batch_parallel is called with
BatchLists ==
    { <<>>, <<PaperA>>, <<PaperD, PaperA>>, <<PaperC, PaperC, PaperB>>,
      <<PaperB, PaperA, PaperD, PaperC, PaperF>> }

BatchFrame == UNCHANGED <<cvars, svars, r_call, d_log, runs, e_call, m_call>>

\* process_papers_batch_parallel is called; "if not papers: return papers"
BatchCall ==
    /\ b_call.op = "none"
    /\ \E papers \in BatchLists, batch_size \in 1..MaxBatchSize :
        b_call' = [NoBatchCall EXCEPT
                     !.op = IF papers = <<>> THEN "returned" ELSE "running",
                     !.papers = papers,
                     !.batch_size = batch_size]
    /\ BatchFrame

\* the gather of one batch returns and its results are collected; after the
\* last batch the function returns all_processed_papers
BatchGather ==
    /\ b_call.op = "running"
    /\ LET last == Min(b_call.i + b_call.batch_size, Len(b_call.papers))
           batch == SubSeq(b_call.papers, b_call.i + 1, last)
       IN  \E outcomes \in [DOMAIN batch -> AcquisitionOutcomes] :
            LET kept == b_call.all_processed_papers \o BatchKept(batch, outcomes)
                over == b_call.i + b_call.batch_size >= Len(b_call.papers)
            IN  b_call' = [b_call EXCEPT
                             !.i = @ + b_call.batch_size,
                             !.outs = @ \o outcomes,
                             !.all_processed_papers = kept,
                             !.total_success = @ + BatchSuccess(batch, outcomes),
                             !.total_discarded = @ + BatchDiscarded(batch, outcomes),
                             !.op = IF over THEN "returned" ELSE "running",
                             !.out = IF over THEN kept ELSE <<>>]
    /\ BatchFrame

BatchNext ==
    \/ BatchCall
    \/ BatchGather

-----------------------------------------------------------------------------
(* process_papers_batch_parallel task by task: every process_paper_pdf of  *)
(* a batch is a task of its own, suspended at each call of a collaborator, *)
(* and the durable store lives on from one call to the next.               *)

\* a paper as the store knows it
StoreKey(p) == [doi |-> p.doi, pid |-> p.pid, title |-> p.title]

IdlePdfTask == [pc |-> "idle", calls |-> <<>>, o |-> "none"]

NoEnforceCall ==
    [op |-> "none", papers |-> <<>>, batch_size |-> 1, i |-> 0,
     tasks |-> <<>>, store |-> {}, store0 |-> {}, n |-> 0, out |-> <<>>]

\* the lists of the calls
EnforceLists == { <<PaperA>>, <<PaperD, PaperA>>, <<PaperA, PaperF, PaperD>> }

EnforceFrame == UNCHANGED <<cvars, svars, r_call, d_log, runs, b_call, m_call>>

\* mutant: the collector is asked whatever the store answered
AfterGetPdfUrlRefetch(existing_url) == "collect"

\* process_paper_pdf after get_pdf_url: "if existing_url: ... return paper"
AfterGetPdfUrl(existing_url) == IF existing_url THEN "done" ELSE "collect"

\* mutant: the next batch is started as soon as one task of this one is done
BatchSettledFirst(tasks, i) ==
    i = 0 \/ \E j \in 1..Min(i, Len(tasks)) : tasks[j].pc = "done"

\* the gather of the batch that ends at index i has returned
BatchSettled(tasks, i) == \A j \in 1..Min(i, Len(tasks)) : tasks[j].pc = "done"

\* process_papers_batch_parallel is called with a list that is not empty
EnforceCall ==
    /\ e_call.op \in {"none", "returned"}
    /\ e_call.n < MaxEnforceCalls
    /\ \E papers \in EnforceLists, batch_size \in 1..MaxBatchSize :
        e_call' = [NoEnforceCall EXCEPT
                     !.op = "running",
                     !.papers = papers,
                     !.batch_size = batch_size,
                     !.tasks = [j \in DOMAIN papers |-> IdlePdfTask],
                     !.store = e_call.store,
                     !.store0 = e_call.store,
                     !.n = e_call.n + 1]
    /\ EnforceFrame

\* the loop takes the next batch: its tasks are created and gathered
PdfBatchStarts ==
    /\ e_call.op = "running"
    /\ e_call.i < Len(e_call.papers)
    /\ BatchSettled(e_call.tasks, e_call.i)
    /\ LET last == Min(e_call.i + e_call.batch_size, Len(e_call.papers))
       IN  e_call' = [e_call EXCEPT
                        !.i = @ + e_call.batch_size,
                        !.tasks = [j \in DOMAIN @ |->
                                     IF j > e_call.i /\ j <= last
                                     THEN [@[j] EXCEPT !.pc = "get"]
                                     ELSE @[j]]]
    /\ EnforceFrame

\* a task ends with outcome o
PdfTaskDone(j, call, o) ==
    [e_call EXCEPT !.tasks[j] = [pc |-> "done", calls |-> Append(@.calls, call), o |-> o]]

\* b2_service.get_pdf_url returns the reference of a stored paper, or raises
GetPdfUrlReturns ==
    /\ \E j \in DOMAIN e_call.tasks, raises \in BOOLEAN :
        /\ e_call.tasks[j].pc = "get"
        /\ LET existing_url == StoreKey(e_call.papers[j]) \in e_call.store
           IN  e_call' =
                 IF raises THEN PdfTaskDone(j, "get_pdf_url", "exception")
                 ELSE IF AfterGetPdfUrl(existing_url) = "done"
                 THEN PdfTaskDone(j, "get_pdf_url", "stored")
                 ELSE [e_call EXCEPT !.tasks[j].pc = "collect",
                                     !.tasks[j].calls = Append(@, "get_pdf_url")]
    /\ EnforceFrame

\* pdf_collector.collect_pdf returns the content or nothing, or raises
CollectPdfReturns ==
    /\ \E j \in DOMAIN e_call.tasks, r \in {"content", "nothing", "raises"} :
        /\ e_call.tasks[j].pc = "collect"
        /\ e_call' =
             CASE r = "raises" -> PdfTaskDone(j, "collect_pdf", "exception")
               [] r = "nothing" -> PdfTaskDone(j, "collect_pdf", "nocontent")
               [] OTHER -> [e_call EXCEPT !.tasks[j].pc = "upload",
                                          !.tasks[j].calls = Append(@, "collect_pdf")]
    /\ EnforceFrame

\* b2_service.upload_pdf returns the reference or nothing, or raises
UploadPdfReturns ==
    /\ \E j \in DOMAIN e_call.tasks, r \in {"url", "nothing", "raises"} :
        /\ e_call.tasks[j].pc = "upload"
        /\ e_call' =
             CASE r = "raises" -> PdfTaskDone(j, "upload_pdf", "exception")
               [] r = "nothing" -> PdfTaskDone(j, "upload_pdf", "persistfail")
               [] OTHER -> [PdfTaskDone(j, "upload_pdf", "persisted") EXCEPT
                              !.store = @ \cup {StoreKey(e_call.papers[j])}]
    /\ EnforceFrame

\* the last gather has returned: all_processed_papers is returned
EnforceReturns ==
    /\ e_call.op = "running"
    /\ e_call.i >= Len(e_call.papers)
    /\ BatchSettled(e_call.tasks, e_call.i)
    /\ e_call' = [e_call EXCEPT
                    !.op = "returned",
                    !.out = BatchKept(e_call.papers,
                                      [j \in DOMAIN e_call.papers |-> e_call.tasks[j].o])]
    /\ EnforceFrame

EnforceNext ==
    \/ EnforceCall
    \/ PdfBatchStarts
    \/ GetPdfUrlReturns
    \/ CollectPdfReturns
    \/ UploadPdfReturns
    \/ EnforceReturns

-----------------------------------------------------------------------------
(* The search endpoint of main.py: every request awaits process_request of *)
(* the one global agent, whose orchestrator holds one engine.              *)

Requests == 1..MaxRequests

\* lists, alone and stats are kept for the properties: what the run merged,
\* whether no other run was in flight while it ran, and the engine's counters
\* when it collected
NoRuns ==
    [r \in Requests |->
        [pc |-> "none", merged |-> 0, got |-> <<>>, lists |-> <<>>, alone |-> FALSE,
         stats |-> DedupStats(Engine(<<>>, {}, 0))]]

SharedFrame ==
    /\ UNCHANGED <<s_pc, s_target, s_terms, s_queries, s_round, s_qidx, prov,
                   f_all, f_order, s_cands, s_kept, s_bi, s_enfRaised, s_result>>
    /\ UNCHANGED <<cvars, r_call, d_log, b_call, e_call, m_call>>

\* a request arrives: search_papers runs to its first await, resetting the engine
RequestStarts ==
    /\ \E r \in Requests :
        /\ runs[r].pc = "none"
        /\ runs' = [q \in Requests |->
                        IF q = r
                        THEN [runs[r] EXCEPT
                                !.pc = "running",
                                !.alone = \A o \in Requests : runs[o].pc # "running"]
                        ELSE IF runs[q].pc = "running"
                        THEN [runs[q] EXCEPT !.alone = FALSE]
                        ELSE runs[q]]
    /\ LET e == ResetEngine(Engine(d_papers, d_seen, d_dups))
       IN  d_papers' = e.papers /\ d_seen' = e.seen /\ d_dups' = e.dups
    /\ SharedFrame

\* a fan-out of a request is gathered and merged into the engine
RequestMerges ==
    /\ \E r \in Requests, l \in RunLists :
        /\ runs[r].pc = "running"
        /\ runs[r].merged < MaxSearchRounds
        /\ runs' = [runs EXCEPT ![r].merged = @ + 1, ![r].lists = Append(@, l)]
        /\ LET e == AddPapers(Engine(d_papers, d_seen, d_dups), Tag(l, r))
           IN  d_papers' = e.papers /\ d_seen' = e.seen /\ d_dups' = e.dups
    /\ SharedFrame

\* the rounds of a request are over: get_papers
RequestCollects ==
    /\ \E r \in Requests :
        /\ runs[r].pc = "running"
        /\ runs[r].merged >= 1
        /\ runs' = [runs EXCEPT ![r].pc = "done", ![r].got = d_papers,
                                 ![r].stats = DedupStats(Engine(d_papers, d_seen, d_dups))]
    /\ UNCHANGED <<d_papers, d_seen, d_dups>>
    /\ SharedFrame

SharedNext ==
    \/ RequestStarts
    \/ RequestMerges
    \/ RequestCollects

-----------------------------------------------------------------------------
(* Routing of a delivery: _extract_message_type of the consumer and        *)
(* get_handler of the handler factory.  A routing key is absent (None) or  *)
(* a string, here a sequence of characters.                                *)

KeyChars == {"a", "b", "."}

RoutingKey(present, text) == [present |-> present, text |-> text]

RoutingKeys ==
    {RoutingKey(FALSE, <<>>)}
        \cup { RoutingKey(TRUE, t) : t \in UNION { [1..n -> KeyChars] : n \in 0..MaxKeyLen } }

\* the type returned when the delivery has no routing key
Websearch == <<"w", "e", "b", "s", "e", "a", "r", "c", "h">>

\* the types a handler is registered under, and the handlers
RegTypes == {<<"a">>, Websearch}

HandlerNames == {"websearch_handler", "other_handler"}

\* routing_key.split('.')[0]
RECURSIVE FirstSegment(_)
FirstSegment(text) ==
    IF text = <<>> \/ Head(text) = "." THEN <<>>
    ELSE <<Head(text)>> \o FirstSegment(Tail(text))

ExtractMessageType(routing_key) ==
    IF routing_key.present /\ routing_key.text # <<>>
    THEN FirstSegment(routing_key.text)
    ELSE Websearch

\* mutant: only a handler registered for the type is returned
GetHandlerRegisteredOnly(factory, message_type) ==
    IF message_type \in DOMAIN factory.handlers
    THEN factory.handlers[message_type]
    ELSE "none"

\* self.handlers.get(message_type, self.default_handler)
GetHandler(factory, message_type) ==
    IF message_type \in DOMAIN factory.handlers
    THEN factory.handlers[message_type]
    ELSE factory.default_handler

NoRouteCall ==
    [op |-> "none", factory |-> [handlers |-> <<>>, default_handler |-> "none"],
     routing_key |-> RoutingKey(FALSE, <<>>), message_type |-> <<>>,
     handler |-> "none", events |-> <<>>]

RouteFrame == UNCHANGED <<cvars, svars, r_call, d_log, runs, b_call, e_call>>

\* register_handler, called while the consumer is constructed
RegisterHandler ==
    /\ m_call.op = "none"
    /\ \E t \in RegTypes, h \in HandlerNames :
        m_call' = [m_call EXCEPT
                     !.factory.handlers =
                        [u \in DOMAIN @ \cup {t} |-> IF u = t THEN h ELSE @[u]]]
    /\ RouteFrame

\* set_default_handler, called while the consumer is constructed
SetDefaultHandler ==
    /\ m_call.op = "none"
    /\ \E h \in HandlerNames :
        m_call' = [m_call EXCEPT !.factory.default_handler = h]
    /\ RouteFrame

\* the iterator hands a delivery to _process_message
RouteArrives ==
    /\ m_call.op # "arrived"
    /\ \E k \in RoutingKeys :
        m_call' = [NoRouteCall EXCEPT !.op = "arrived", !.factory = m_call.factory,
                                       !.routing_key = k]
    /\ RouteFrame

\* _process_message up to the call of handle_message, or to its return
RouteDispatches ==
    /\ m_call.op = "arrived"
    /\ LET message_type == ExtractMessageType(m_call.routing_key)
           handler == GetHandler(m_call.factory, message_type)
       IN  m_call' =
             IF handler = "none"
             THEN [m_call EXCEPT !.op = "rejected", !.message_type = message_type,
                                  !.events = <<"reject_discard">>]
             ELSE [m_call EXCEPT !.op = "dispatched", !.message_type = message_type,
                                  !.handler = handler]
    /\ RouteFrame

RouteNext ==
    \/ RegisterHandler
    \/ SetDefaultHandler
    \/ RouteArrives
    \/ RouteDispatches

-----------------------------------------------------------------------------
(* Specifications.                                                         *)

FunctionInit ==
    /\ r_call = NoCall
    /\ d_log = <<>>
    /\ runs = NoRuns
    /\ b_call = NoBatchCall
    /\ e_call = NoEnforceCall
    /\ m_call = NoRouteCall

Init == ConsumerInit /\ SearchInit /\ FunctionInit

SpecConsumer == Init /\ [][ConsumerNext]_vars

SpecSearch == Init /\ [][SearchNext]_vars

SpecFanOut == Init /\ [][FanOutNext]_vars

SpecRank == Init /\ [][RankNext]_vars

SpecDedup == Init /\ [][DedupNext]_vars

SpecShared == Init /\ [][SharedNext]_vars

SpecBatch == Init /\ [][BatchNext]_vars

SpecEnforce == Init /\ [][EnforceNext]_vars

SpecRoute == Init /\ [][RouteNext]_vars

\* the consumer with its steps scheduled: every coroutine that can go on
\* eventually does; no delivery has to arrive and nobody has to call stop()
SpecConsumerFair ==
    /\ Init
    /\ [][ConsumerNext]_vars
    /\ WF_vars(Connect)
    /\ WF_vars(SetupQueues)
    /\ WF_vars(StartConsuming)
    /\ WF_vars(RunReturns \/ RunRaises)
    /\ WF_vars(PublishDone)
    /\ WF_vars(StopClose)
    /\ WF_vars(IteratorEnds)

-----------------------------------------------------------------------------
(* Properties.                                                             *)

HasEvent(events, ev) == \E i \in DOMAIN events : events[i].ev = ev

\* the delivery in hand has been dispatched and its processing has ended
Processed == cur.taken /\ cur.ended /\ cur.dispatched

\* C1: for every delivery the consumer takes from the queue, exactly one of
\* ack, reject-and-requeue, reject-and-discard has been invoked on it by the
\* time its processing ends, whatever its body and whatever the handler's
\* outcome, also when it is received after stop() has cleared is_running.
C1_ExactlyOneLifecycleOp ==
    (cur.taken /\ cur.ended) => Len(OpsOf(cur.events)) = 1

\* C2: every paper in the list search_papers returns carries a content
\* reference that came from the durable store or from a successful persist.
C2_ReturnedPapersHaveContent ==
    s_pc = "complete" =>
        \A i \in DOMAIN s_result :
            s_result[i].pdfContentUrl \in {"existing", "uploaded"}

\* a run that returned a paper with content and dropped one without
C2_Witness ==
    /\ s_pc = "complete"
    /\ s_result # <<>>
    /\ Len(s_kept) < Len(s_cands)

\* C3: search_papers(query_terms, domain, N) returns at most N papers.
C3_AtMostTarget == s_pc = "complete" => Len(s_result) <= s_target

\* a run in which more than N > 0 papers obtained content
C3_Witness ==
    /\ s_pc = "complete"
    /\ s_target > 0
    /\ Len(s_kept) > s_target
    /\ Len(s_result) = s_target

\* a paper is represented in the session: the unique collection holds it or
\* a paper that shares an identity key with it
InSession(p) ==
    \E j \in DOMAIN d_papers :
        \/ d_papers[j] = p
        \/ IdentityKeys(d_papers[j]) \cap IdentityKeys(p) # {}

\* C4: a source that fails on every call neither raises out of the fan-out
\* nor keeps the answers of the other sources from being merged: once the
\* fan-out has settled every paper any source answered with is in what
\* _search_all_sources returns and is represented in the session.
C4_ProviderIsolation ==
    /\ s_pc # "raised"
    /\ s_pc = "fan_done" =>
        \A s \in Sources : \A i \in DOMAIN prov[s].res :
            LET p == [prov[s].res[i] EXCEPT !.source = s]
            IN  /\ \E j \in DOMAIN f_all : f_all[j] = p
                /\ InSession(p)

\* a settled fan-out in which one source failed and another answered
C4_Witness ==
    /\ s_pc = "fan_done"
    /\ \E s, t \in Sources :
        /\ prov[s].failed
        /\ prov[t].res # <<>>
        /\ \E j \in DOMAIN d_papers : d_papers[j].source = t

\* a decoded request object without projectId, or whose queryTerms is
\* missing, not a list, or an empty list
InvalidRequest(b) ==
    b.kind = "obj" /\ ("projectId" \notin b.names \/ b.qt # "list1")

\* C5: a delivery whose decoded payload lacks projectId, or whose queryTerms
\* is missing, not a list or empty, is rejected without requeue, the
\* orchestrator run is never invoked for it and no result is published.
C5_InvalidRequestDiscarded ==
    (Processed /\ InvalidRequest(cur.body)) =>
        /\ OpsOf(cur.events) = <<Reject(FALSE, TRUE)>>
        /\ ~HasEvent(cur.events, "run")
        /\ ~HasEvent(cur.events, "publish")

\* C6: a delivery whose body is malformed (not UTF-8, not JSON, or JSON that
\* is no request object) is rejected at the boundary: it never enters the
\* orchestrator and it is never requeued.
C6_MalformedRejectedNeverRequeued ==
    (Processed /\ IsMalformed(cur.body)) =>
        /\ ~HasEvent(cur.events, "run")
        /\ ~HasEvent(cur.events, "reject_requeue")
        /\ HasEvent(cur.events, "reject_discard")

\* C7: a delivery is acknowledged only after the orchestrator run for it has
\* returned and the publish of its result has completed, and never when the
\* run or the publish raised.
C7_AckOnlyAfterRunAndPublish ==
    \A i \in DOMAIN cur.events :
        cur.events[i].ev = "ack" =>
            /\ \E j \in 1..(i - 1) : cur.events[j] = Ev("run", TRUE)
            /\ \E j \in 1..(i - 1) : cur.events[j] = Ev("publish", TRUE)
            /\ \A j \in 1..(i - 1) :
                /\ cur.events[j] # Ev("run", FALSE)
                /\ cur.events[j].ev # "publish_raised"

\* C8: when handling a delivery raises, the delivery is rejected without
\* requeue if the exception is an AttributeError, whatever its text, and
\* with requeue for every other exception.
C8_RequeueByExceptionClass ==
    (Processed /\ cur.exc # NoExc) =>
        /\ OpsOf(cur.events) # <<>>
        /\ OpsOf(cur.events)[Len(OpsOf(cur.events))].ev
             = Reject(cur.exc.type # "AttributeError", TRUE).ev

\* C9: every search_papers invocation reaches COMPLETE (returns a list),
\* whatever its collaborators do: it never ends by raising.
C9_AlwaysCompletes == s_pc # "raised"

\* C10: if the content-enforcement stage as a whole raises, search_papers
\* returns the empty list, never the ranked candidates.
C10_EnforcementFailureGivesEmpty ==
    (s_pc = "complete" /\ s_enfRaised) => s_result = <<>>

\* a run whose enforcement raised over a non-empty list of ranked candidates
C10_Witness ==
    /\ s_pc = "complete"
    /\ s_enfRaised
    /\ s_cands # <<>>

\* C11 (as stated): if the content-enforcement stage itself raises, the
\* failure leaves the run as an exception instead of a completed result.
C11_EnforcementFailurePropagates == s_enfRaised => s_pc = "raised"

\* C11 (amended): if the content-enforcement stage itself raises,
\* search_papers contains the failure: the run completes normally and what it
\* returns is the empty list.
C11_EnforcementFailureContained ==
    s_enfRaised => (s_pc = "complete" /\ s_result = <<>>)

\* a run that completed although its enforcement raised
C11_Witness == s_enfRaised /\ s_pc = "complete" /\ Len(s_cands) > s_target

\* the bijections of 1..n
Bijections(n) ==
    { f \in [1..n -> 1..n] : \A i, j \in 1..n : f[i] = f[j] => i = j }

\* a paper with its texts in lower case
LowerPaper(p) == [p EXCEPT !.title = Lower(p.title), !.abstract = Lower(p.abstract)]

\* C12: ranking returns a permutation of its input in descending order of
\* score, papers of equal score in their input order; the score does not
\* depend on the case of the terms or of the paper's texts.
C12_RankingStableDescending ==
    r_call.op = "ranked" =>
        LET in == r_call.papers
            out == r_call.out
            t == r_call.terms
        IN  /\ Len(out) = Len(in)
            /\ \E f \in Bijections(Len(in)) :
                /\ \A i \in DOMAIN out : out[i] = in[f[i]]
                /\ \A i, j \in DOMAIN out :
                    i < j =>
                        /\ Score(out[i], t) >= Score(out[j], t)
                        /\ Score(out[i], t) = Score(out[j], t) => f[i] < f[j]
            /\ \A i \in DOMAIN in :
                Score(in[i], t)
                  = Score(LowerPaper(in[i]), [k \in DOMAIN t |-> Lower(t[k])])

\* a ranking that moved a paper ahead and kept two papers of equal score in
\* their input order
C12_Witness ==
    /\ r_call.op = "ranked"
    /\ Len(r_call.papers) = 3
    /\ r_call.out # r_call.papers
    /\ \E i \in 1..2 :
        /\ r_call.out[i] # r_call.out[i + 1]
        /\ Score(r_call.out[i], r_call.terms) = Score(r_call.out[i + 1], r_call.terms)
        /\ Score(r_call.out[i], r_call.terms) > 0

\* a paper from which no identity key derives
Keyless(p) == p.doi = "" /\ p.pid = "" /\ p.title = <<>>

\* add_papers(P) called again right after add_papers(P) adds nothing
SecondAddAddsNothing(P) ==
    LET e1 == AddPapers(CurrentEngine, P)
    IN  /\ AddedCount(e1, P) = 0
        /\ AddPapers(e1, P).papers = e1.papers

\* C13 (as stated): for all paper lists P and every engine state, the second
\* of two add_papers(P) calls returns 0 and leaves the collection unchanged.
C13_SecondAddAddsNothing == \A P \in DedupLists : SecondAddAddsNothing(P)

\* C13 (amended): for all paper lists P whose papers each have an identity
\* key and every engine state, the second of two add_papers(P) calls returns
\* 0 and leaves the collection unchanged.
C13_SecondAddOfKeyedAddsNothing ==
    \A P \in DedupLists :
        (\A i \in DOMAIN P : ~Keyless(P[i])) => SecondAddAddsNothing(P)

\* the same list was added twice in a row, with papers added the first time
C13_Witness ==
    \E i \in 1..(Len(d_log) - 1) :
        /\ d_log[i].papers = d_log[i + 1].papers
        /\ d_log[i].added > 0
        /\ d_log[i + 1].added = 0
        /\ \A k \in DOMAIN d_log[i].papers : ~Keyless(d_log[i].papers[k])

RECURSIVE Flatten(_, _)
Flatten(log, i) ==
    IF i > Len(log) THEN <<>> ELSE log[i].papers \o Flatten(log, i + 1)

\* the papers submitted since the reset, in order
Submitted == Flatten(d_log, 1)

\* the DOI a record names, its case apart
CanonicalDoi(doi) == IF doi \in {"10.1/abc", "10.1/ABC"} THEN "10.1/abc" ELSE doi

\* the positions of the records of a sequence that name the DOI d
WithDoi(papers, d) ==
    { i \in DOMAIN papers : papers[i].doi # "" /\ CanonicalDoi(papers[i].doi) = d }

\* the DOIs under which at least two records were submitted
SharedDois ==
    { d \in { CanonicalDoi(Submitted[i].doi) : i \in DOMAIN Submitted } :
        Cardinality(WithDoi(Submitted, d)) >= 2 }

\* C14 (as stated): of the records submitted under one normalized DOI the
\* unique collection holds exactly one, the others were rejected duplicates.
C14_SharedDoiExactlyOne ==
    \A d \in SharedDois :
        /\ Cardinality(WithDoi(d_papers, d)) = 1
        /\ d_dups >= Cardinality(WithDoi(Submitted, d)) - 1

\* C14 (amended): of the records submitted under one normalized DOI the
\* unique collection never holds two, in whatever order and calls they came,
\* and the others were rejected duplicates; it holds none only when every
\* one of them was rejected as a duplicate of an entry under another DOI or
\* none, through its provider id or title.
C14_SharedDoiAtMostOne ==
    \A d \in SharedDois :
        /\ Cardinality(WithDoi(d_papers, d)) <= 1
        /\ d_dups >= Cardinality(WithDoi(Submitted, d)) - 1
        /\ WithDoi(d_papers, d) = {} =>
            \A i \in WithDoi(Submitted, d) :
                \E j \in DOMAIN d_papers :
                    /\ j \notin WithDoi(d_papers, d)
                    /\ IdentityKeys(d_papers[j]) \cap IdentityKeys(Submitted[i]) # {}

\* the two records of one DOI came in both orders in two sessions' worth of
\* calls: here the one written in upper case came first and was kept
C14_Witness ==
    /\ Len(d_log) = 2
    /\ d_log[1].papers = <<PaperB>>
    /\ d_log[2].papers = <<PaperA>>
    /\ d_papers = <<PaperB>>
    /\ d_dups = 1

\* the number of keyless records of a sequence
KeylessIn(papers) == Cardinality({ i \in DOMAIN papers : Keyless(papers[i]) })

\* C15: a paper with no derivable identity key is always added as unique,
\* also after an identical keyless record, and adding it never causes a
\* later paper to be discarded.
C15_KeylessAlwaysUnique ==
    /\ KeylessIn(d_papers) = KeylessIn(Submitted)
    /\ \A i \in DOMAIN d_log :
        d_log[i].added >= KeylessIn(d_log[i].papers)
    /\ LET e1 == AddPapers(CurrentEngine, <<PaperC>>)
       IN  /\ e1.papers = Append(d_papers, PaperC)
           /\ e1.dups = d_dups
           /\ \A P \in DedupLists :
                AddPapers(e1, P).dups - e1.dups
                  = AddPapers(CurrentEngine, P).dups - d_dups

\* the same keyless record was added in two calls and a paper with keys
\* after it
C15_Witness ==
    /\ Len(d_log) = 2
    /\ d_log[1].papers = <<PaperC, PaperC>>
    /\ d_log[2].papers = <<PaperC, PaperD>>
    /\ d_papers = <<PaperC, PaperC, PaperC, PaperD>>

RECURSIVE SumAdded(_, _)
SumAdded(log, i) == IF i > Len(log) THEN 0 ELSE log[i].added + SumAdded(log, i + 1)

\* C16: each add_papers call returned the number of papers it inserted,
\* unique_papers is the length of get_papers(), and unique_papers plus
\* duplicates_rejected is the number of papers submitted; three papers of
\* which two share a DOI give 2 unique papers and 1 rejected duplicate.
C16_CountersAddUp ==
    LET stats == DedupStats(CurrentEngine)
    IN  /\ \A i \in DOMAIN d_log :
            d_log[i].added
              = d_log[i].size - (IF i = 1 THEN 0 ELSE d_log[i - 1].size)
        /\ SumAdded(d_log, 1) = Len(d_papers)
        /\ stats.unique_papers = Len(d_papers)
        /\ stats.unique_papers + stats.duplicates_rejected = Len(Submitted)
        /\ (Len(d_log) = 1 /\ d_log[1].papers = <<PaperA, PaperB, PaperD>>) =>
            (stats.unique_papers = 2 /\ stats.duplicates_rejected = 1)

\* calls that rejected two duplicates, of the same DOI, in two calls
C16_Witness ==
    /\ Len(d_log) = 2
    /\ d_log[1].papers = <<PaperA, PaperB, PaperD>>
    /\ d_log[1].added = 2
    /\ d_log[2].added = 0
    /\ DedupStats(CurrentEngine).duplicates_rejected = 2

\* C17: when a call of stop() returns, is_running is false and the broker
\* connection is closed (is_connected and is_setup false), also when closing
\* the channel fails.
C17_StopClosesConnection ==
    [][(stop_pc = "closing" /\ stop_pc' = "idle") =>
        (~is_running' /\ ~is_connected' /\ ~is_setup')]_vars

\* C18: once stop() has been called, no delivery is dispatched to a handler
\* any more, at whatever moment of start() it was called.
C18_NoDispatchAfterStop ==
    [][(stop_at # "never" /\ delivered' = delivered + 1) => ~cur'.dispatched]_vars

\* C19: if stop() is called while the loop waits for the next delivery, the
\* loop eventually exits without a further delivery.
C19_StopEndsWaitingLoop ==
    (stop_at = "waiting") ~> (c_pc \in {"exited", "failed"})

\* C20: when stop() is called while a delivery is being handled and its
\* orchestrator run returns, the result is published over the still usable
\* connection and the delivery is acknowledged before the loop exits.
C20_InFlightDeliveryFinishes ==
    (stop_at = "handling" /\ Processed
        /\ (\E i \in DOMAIN cur.events : cur.events[i] = Ev("run", TRUE))
        /\ ~HasEvent(cur.events, "publish_raised")) =>
        /\ ~HasEvent(cur.events, "publish_refused")
        /\ \E i \in DOMAIN cur.events : cur.events[i] = Ev("ack", TRUE)

\* C21: consuming begins only from a start() that connected and then declared
\* the topology, each once and in that order; a start() that failed to
\* connect or to declare stays failed, consumes no delivery and leaves the
\* consumer not running.
C21_StartOrder ==
    [][ /\ (c_pc' = "waiting" /\ c_pc \notin {"waiting", "handling"})
            => (c_pc = "setup" /\ is_connected /\ is_setup /\ delivered = 0)
        /\ (is_setup' /\ ~is_setup)
            => (c_pc = "connected" /\ is_connected /\ c_pc' = "setup")
        /\ (is_connected' /\ ~is_connected)
            => (c_pc = "init" /\ ~is_setup /\ c_pc' = "connected")
        /\ (c_pc' = "failed" /\ c_pc \in {"init", "connected", "setup"})
            => (~is_running' /\ delivered' = 0)
        /\ c_pc = "failed"
            => (c_pc' = "failed" /\ ~is_running' /\ delivered' = delivered)
      ]_vars

C21_Witness ==
    c_pc = "handling" /\ delivered = 1 /\ is_connected /\ is_setup

\* the statistics once the gather of these tasks has been merged
StatsAfter(tasks, ai_ready) ==
    GetSearchStats(AddPapers(Engine(d_papers, d_seen, d_dups),
                             CombineResults(tasks)), ai_ready)

\* the same fan-out, had source s answered with no papers instead of failing
AnsweredEmpty(tasks, s) ==
    [tasks EXCEPT ![s] = Task("done", tasks[s].attempt, tasks[s].outs, <<>>, FALSE)]

\* C22: the statistics of a run record a provider's failure: a provider that
\* failed is told apart from one that succeeded (here: with no papers).
C22_FailureRecorded ==
    (s_pc = "fan_out" /\ AllSettled)
        => \A s \in Sources, ai_ready \in BOOLEAN :
            prov[s].failed
                => StatsAfter(prov, ai_ready) # StatsAfter(AnsweredEmpty(prov, s), ai_ready)

\* C23: search_papers is never running with an empty list of query terms.
C23_QueryTermsNeverEmpty ==
    s_pc # "idle" => s_terms # <<>>

\* C24: no two search runs are in flight on one deduplication engine.
C24_OneRunPerEngine ==
    Cardinality({ r \in Requests : runs[r].pc = "running" }) <= 1

\* an error whose text holds "rate limit" or "429", in whatever case
RateLimited(x) ==
    /\ x.kind = "error"
    /\ x.text \in { <<"4", "2", "9">>,
                    <<"R", "a", "t", "e", " ", "L", "i", "m", "i", "t">> }

\* C25: a call that fails with a rate-limit error is retried after the
\* backoff sleep while retries remain; a source's client is called at most
\* MaxRateLimitRetries + 1 times, a further call following only rate-limited
\* ones; a source rate-limited on every attempt ends with no papers, and
\* nothing is raised out of the fan-out.
C25_RateLimitRetried ==
    /\ s_pc # "raised"
    /\ \A s \in Sources :
        LET t == prov[s]
            n == Len(t.outs)
        IN  /\ n <= MaxRateLimitRetries + 1
            /\ \A i \in 1..(n - 1) : RateLimited(t.outs[i])
            /\ (n > 0 /\ RateLimited(t.outs[n]) /\ n <= MaxRateLimitRetries)
                    => \/ t.st = "sleep" /\ t.attempt = n - 1
                       \/ t.st = "call" /\ t.attempt = n
            /\ (n = MaxRateLimitRetries + 1 /\ RateLimited(t.outs[n]))
                    => (t.st = "done" /\ t.res = <<>>)

\* a source rate-limited on every attempt, once by a text in mixed case, in
\* a fan-out that was gathered
C25_Witness ==
    /\ s_pc = "fan_done"
    /\ \E s \in Sources :
        /\ Len(prov[s].outs) = MaxRateLimitRetries + 1
        /\ \A i \in DOMAIN prov[s].outs : RateLimited(prov[s].outs[i])
        /\ \E i \in DOMAIN prov[s].outs : prov[s].outs[i].text # Lower(prov[s].outs[i].text)

\* C26: a call that times out or fails with an error that is no rate-limit
\* error is the last call of its dispatch, whatever retries remain and
\* whatever came before it: the dispatch ends with no papers, and nothing is
\* raised out of it.
C26_OtherFailuresNotRetried ==
    /\ s_pc # "raised"
    /\ \A s \in Sources : \A i \in DOMAIN prov[s].outs :
        (prov[s].outs[i].kind # "ok" /\ ~RateLimited(prov[s].outs[i]))
            => /\ i = Len(prov[s].outs)
               /\ prov[s].st = "done"
               /\ prov[s].res = <<>>

\* one source timed out on its first call, with retries left; another failed
\* with an error after a rate-limited attempt
C26_Witness ==
    /\ s_pc = "fan_done"
    /\ \E s, t \in Sources :
        /\ Len(prov[s].outs) = 1 /\ prov[s].outs[1].kind = "timeout"
        /\ prov[s].attempt < MaxRateLimitRetries
        /\ Len(prov[t].outs) = 2 /\ RateLimited(prov[t].outs[1])
        /\ prov[t].outs[2].kind = "error" /\ ~RateLimited(prov[t].outs[2])

\* C27: the dispatches of one query are started together, one per active
\* source; the fan-out is gathered, its answers merged into the session and
\* the caller resumed (the next query, the test of the count, the next round)
\* only when every dispatch has ended.
C27_GatherWaitsForAll ==
    [][ /\ (s_pc = "idle" /\ s_pc' = "fan_out")
            => \A s \in Sources : prov'[s].st = "call" /\ prov'[s].outs = <<>>
        /\ (s_pc = "fan_out"
              /\ (s_pc' # "fan_out" \/ d_papers' # d_papers \/ f_all' # f_all))
            => /\ \A s \in Sources : prov[s].st = "done"
               /\ prov' = prov
      ]_vars

\* the fan-out is still awaited: one source has answered with papers while
\* another is backing off before its retry
C27_Witness ==
    /\ s_pc = "fan_out"
    /\ \E s, t \in Sources :
        /\ prov[s].st = "done" /\ prov[s].res # <<>>
        /\ prov[t].st = "sleep"
    /\ f_all = <<>>

\* C28: round 1 dispatches the one query made by joining the terms with
\* blanks. A further round starts only out of a refinement that returned at
\* least one query, with fewer than MaxSearchRounds rounds run and fewer
\* unique papers than the enhanced target, and its queries are the refined
\* ones. Refinement is requested only when a round's last query has been
\* merged, that round is not the last and the target is not reached, and is
\* followed by the next round or by the end of the rounds: once per round.
C28_RoundProgression ==
    [][ /\ (s_pc = "idle" /\ s_pc' # "idle")
            => /\ s_round' = 0 /\ s_qidx' = 1
               /\ Len(s_queries') = 1
               /\ s_queries'[1] = JoinTerms(s_terms')
        /\ (s_pc # "idle" /\ (s_round' # s_round \/ s_queries' # s_queries))
            => /\ s_pc = "refine" /\ s_pc' = "dispatch"
               /\ s_round' = s_round + 1 /\ s_round' < MaxSearchRounds
               /\ Len(d_papers) < 2 * s_target
               /\ \E k \in 1..MaxRefinedQueries : s_queries' = RefinedQueries(k)
               /\ s_qidx' = 1
        /\ (s_pc # "refine" /\ s_pc' = "refine")
            => /\ s_pc = "dispatch" /\ s_qidx = Len(s_queries)
               /\ s_round + 1 < MaxSearchRounds
               /\ Len(d_papers') < 2 * s_target
        /\ s_pc = "refine"
            => \/ s_pc' = "dispatch" /\ s_round' = s_round + 1
               \/ s_pc' = "enrich" /\ s_round' = s_round
      ]_vars

\* the second round is under way with refined queries, the terms of the
\* request having been joined for the first
C28_Witness ==
    /\ s_pc = "dispatch" /\ s_round = 1 /\ s_qidx = 2
    /\ Len(s_queries) > 1
    /\ Len(s_terms) > 1
    /\ Len(d_papers) < 2 * s_target

RECURSIVE IsSubSeqFrom(_, _, _, _)
\* a from its i-th element on is found, in order, in b from its j-th on
IsSubSeqFrom(a, i, b, j) ==
    IF i > Len(a) THEN TRUE
    ELSE IF j > Len(b) THEN FALSE
    ELSE IF a[i] = b[j] THEN IsSubSeqFrom(a, i + 1, b, j + 1)
    ELSE IsSubSeqFrom(a, i, b, j + 1)

\* the papers without what enrichment and acquisition write into them
Bare(papers) ==
    [i \in DOMAIN papers |-> [papers[i] EXCEPT !.pdfContentUrl = "", !.abstract = <<>>]]

\* a and b hold the same papers, each as often
SameBag(a, b) ==
    \A x \in { a[i] : i \in DOMAIN a } \cup { b[i] : i \in DOMAIN b } :
        Cardinality({ i \in DOMAIN a : a[i] = x }) = Cardinality({ i \in DOMAIN b : b[i] = x })

\* C29: the candidates handed to enrichment are the first min(k, 2 * target)
\* of the k unique papers, in discovery order, and ranking is given those
\* and no others; the papers that obtained content are kept in the order
\* ranking gave the candidates, and the list returned is the first
\* min(target, m) of these m papers, in that order.
C29_SelectionAndTruncation ==
    LET n == Min(Len(d_papers), 2 * s_target)
        first == [i \in 1..n |-> d_papers[i]]
    IN  /\ s_pc = "enrich" => s_cands = first
        /\ s_pc \in {"enforce", "complete"}
            => /\ SameBag(Bare(s_cands), Bare(first))
               /\ IsSubSeqFrom(Bare(s_kept), 1, Bare(s_cands), 1)
        /\ (s_pc = "complete" /\ ~s_enfRaised)
            => LET m == Len(s_kept)
               IN  s_result = [i \in 1..Min(s_target, m) |-> s_kept[i]]

\* more unique papers than twice the target were found, ranking put the
\* candidates in another order, more of them than the target obtained
\* content, and the first of these were returned
C29_Witness ==
    /\ s_pc = "complete" /\ ~s_enfRaised
    /\ s_target > 0
    /\ Len(d_papers) > 2 * s_target
    /\ Bare(s_cands) # Bare(SubSeq(d_papers, 1, 2 * s_target))
    /\ Len(s_kept) > s_target
    /\ Len(s_result) = s_target

RECURSIVE WithContent(_, _, _)
\* of the first n papers, those whose acquisition gave a content reference,
\* each carrying it, in the order of the list
WithContent(papers, outs, n) ==
    IF n = 0 THEN <<>>
    ELSE WithContent(papers, outs, n - 1) \o
         (CASE outs[n] = "stored" -> <<[papers[n] EXCEPT !.pdfContentUrl = "existing"]>>
            [] outs[n] = "persisted" -> <<[papers[n] EXCEPT !.pdfContentUrl = "uploaded"]>>
            [] OTHER -> <<>>)

\* C30: whatever the list and the batch size (1 or more),
\* process_papers_batch_parallel goes through every batch and returns the
\* papers that obtained a content reference, all of them and no others, in
\* the order of the list; a paper that failed is the only one dropped.
C30_BatchReturnsThoseWithContent ==
    LET n == Len(b_call.outs)
    IN  /\ b_call.all_processed_papers = WithContent(b_call.papers, b_call.outs, n)
        /\ b_call.op = "running" => n < Len(b_call.papers)
        /\ b_call.op = "returned"
            => /\ n = Len(b_call.papers)
               /\ b_call.out = WithContent(b_call.papers, b_call.outs, n)

\* a list of five papers went through three batches of two, two and one: a
\* paper of the first batch raised, its neighbour was kept, and papers of
\* the later batches were kept and dropped
C30_Witness ==
    /\ b_call.op = "returned"
    /\ Len(b_call.papers) = 5 /\ b_call.batch_size = 2
    /\ b_call.outs[1] = "exception" /\ b_call.outs[2] = "persisted"
    /\ b_call.outs[3] = "nocontent" /\ b_call.outs[4] = "stored"
    /\ b_call.outs[5] = "stored"
    /\ Len(b_call.out) = 3

BatchOf(j) == ((j - 1) \div e_call.batch_size) + 1

\* C32: no task of a batch exists before every task of the batches before
\* it has ended, and at most batch_size tasks are in flight at a time.
C32_BatchesSequential ==
    /\ Cardinality({ j \in DOMAIN e_call.tasks :
                       e_call.tasks[j].pc \notin {"idle", "done"} }) <= e_call.batch_size
    /\ \A j, k \in DOMAIN e_call.tasks :
        (BatchOf(j) < BatchOf(k) /\ e_call.tasks[k].pc # "idle")
            => e_call.tasks[j].pc = "done"

\* the two tasks of the first batch are in flight together, at different
\* points, while the paper of the second batch waits
C32_Witness ==
    /\ Len(e_call.papers) = 3 /\ e_call.batch_size = 2
    /\ e_call.tasks[1].pc = "upload" /\ e_call.tasks[2].pc = "collect"
    /\ e_call.tasks[3].pc = "idle"

\* C33: when process_papers_batch_parallel has returned, its counts of kept
\* and discarded papers add up to the number of papers it was given and the
\* count of kept papers is the length of the list returned; when no paper
\* obtained content the list is empty, 0 are kept and all are discarded.
C33_CountsAddUp ==
    b_call.op = "returned"
        => /\ b_call.total_success + b_call.total_discarded = Len(b_call.papers)
           /\ b_call.total_success = Len(b_call.out)
           /\ (\A j \in DOMAIN b_call.outs : b_call.outs[j] \notin {"stored", "persisted"})
                => /\ b_call.out = <<>>
                   /\ b_call.total_success = 0
                   /\ b_call.total_discarded = Len(b_call.papers)

\* acquisition failed for each of five papers, in every way it can fail
C33_Witness ==
    /\ b_call.op = "returned"
    /\ Len(b_call.papers) = 5
    /\ b_call.total_discarded = 5
    /\ { b_call.outs[j] : j \in DOMAIN b_call.outs }
         = {"nocontent", "persistfail", "exception"}

\* C34: the message type of a delivery is the first dot-delimited segment of
\* its routing key, or websearch when the key is absent or empty; the handler
\* is the one registered for exactly that type, else the default handler; the
\* delivery is rejected without requeue only when there is neither.
C34_RoutedByFirstSegment ==
    m_call.op \in {"dispatched", "rejected"}
        => LET k == m_call.routing_key
               t == m_call.message_type
               f == m_call.factory
               registered == t \in DOMAIN f.handlers
           IN  /\ IF ~k.present \/ k.text = <<>>
                  THEN t = Websearch
                  ELSE /\ Len(t) <= Len(k.text)
                       /\ t = SubSeq(k.text, 1, Len(t))
                       /\ \A j \in DOMAIN t : t[j] # "."
                       /\ Len(t) < Len(k.text) => k.text[Len(t) + 1] = "."
               /\ m_call.op = "dispatched"
                    => /\ m_call.events = <<>>
                       /\ m_call.handler # "none"
                       /\ m_call.handler = IF registered THEN f.handlers[t]
                                           ELSE f.default_handler
               /\ m_call.op = "rejected"
                    <=> ~registered /\ f.default_handler = "none"
               /\ m_call.op = "rejected" => m_call.events = <<"reject_discard">>

\* a delivery with key "b.a" went to the default handler while another
\* handler is registered for type "a"
C34_Witness ==
    /\ m_call.op = "dispatched"
    /\ m_call.routing_key = RoutingKey(TRUE, <<"b", ".", "a">>)
    /\ m_call.message_type = <<"b">>
    /\ DOMAIN m_call.factory.handlers = {<<"a">>}
    /\ m_call.factory.handlers[<<"a">>] = "other_handler"
    /\ m_call.handler = "websearch_handler"

\* the papers with no source tag
Untagged(papers) == [i \in DOMAIN papers |-> [papers[i] EXCEPT !.source = ""]]

\* the ranked candidates of a run of one query whose sources are listed in
\* the given order and have answered as the tasks tell
RankedWhenListed(tasks, active_sources, target, terms) ==
    LET e == AddPapers(Engine(<<>>, {}, 0), CombineListed(tasks, active_sources))
    IN  Untagged(RankPapers(Candidates(e.papers, target), terms))

\* C35: for fixed provider answers, the ranked list of a run is the same
\* for every order in which the active sources are listed and dispatched.
C35_ListingOrderIrrelevant ==
    (s_pc = "fan_out" /\ AllSettled)
        => \A f \in Bijections(NumSources), target \in 1..MaxTarget, terms \in TermLists :
            RankedWhenListed(prov, [i \in 1..NumSources |-> f[i]], target, terms)
                = RankedWhenListed(prov, [i \in 1..NumSources |-> i], target, terms)

\* C36: a delivery is acknowledged only when its result has been published:
\* no acknowledgement follows a publish that failed or was never attempted.
C36_AckedOnlyIfPublished ==
    LET done == { cur.events[i] : i \in DOMAIN cur.events }
    IN  Ev("ack", TRUE) \in done => Ev("publish", TRUE) \in done

\* C37: when no ack or reject call fails, at most one lifecycle operation is
\* invoked on a delivery: what the handler has acknowledged or rejected is
\* rejected again neither by its except clause nor by _process_message.
C37_NoSecondLifecycleOp ==
    (\A i \in DOMAIN cur.events : cur.events[i].ev \in LifecycleOps => cur.events[i].ok)
        => Len(OpsOf(cur.events)) <= 1

\* a delivery whose run raised was rejected once, by the handler's except
\* clause, and its processing has ended
C37_Witness ==
    /\ Processed
    /\ cur.exc \in ProcessExcs
    /\ HasEvent(cur.events, "run")
    /\ Len(OpsOf(cur.events)) = 1
    /\ OpsOf(cur.events)[1].ok

\* C38: an exception raised while a delivery is processed never ends the
\* consume loop: when the processing ends, the loop waits for the next
\* delivery.
C38_LoopSurvivesException ==
    [][(cur' # cur /\ cur'.dispatched /\ cur'.ended /\ cur'.exc \in ProcessExcs)
            => c_pc' = "waiting"]_vars

RECURSIVE LenBefore(_, _)
\* the number of papers the sources registered before s answered with
LenBefore(tasks, s) ==
    IF s = 1 THEN 0 ELSE LenBefore(tasks, s - 1) + Len(tasks[s - 1].res)

\* C39: whatever the order in which the sources' calls complete, the merged
\* list of a query holds the answers in the registry order of the sources,
\* each paper tagged with the source that returned it, and that list is what
\* the engine is given.
C39_MergedInRegistryOrder ==
    [][(s_pc = "fan_out" /\ s_pc' = "fan_done")
        => /\ Len(f_all') = LenBefore(prov, NumSources) + Len(prov[NumSources].res)
           /\ \A s \in Sources : \A i \in DOMAIN prov[s].res :
                f_all'[LenBefore(prov, s) + i] = [prov[s].res[i] EXCEPT !.source = s]
           /\ Engine(d_papers', d_seen', d_dups')
                = AddPapers(Engine(d_papers, d_seen, d_dups), f_all')]_vars

\* the last source answered first, with papers, and the merged list starts
\* with the papers of the first source
C39_Witness ==
    /\ s_pc = "fan_done"
    /\ Len(f_order) = NumSources
    /\ f_order[1] = NumSources
    /\ \A s \in Sources : prov[s].res # <<>>
    /\ f_all[1].source = 1

RECURSIVE MergedFrom(_, _, _, _)
\* the engine e after the lists from the i-th on were merged for request r
MergedFrom(e, lists, r, i) ==
    IF i > Len(lists) THEN e
    ELSE MergedFrom(AddPapers(e, Tag(lists[i], r)), lists, r, i + 1)

\* C40: a run that had the orchestrator to itself starts from an empty
\* engine: what it collects, and the engine's counters when it does, are
\* those of an engine given this run's papers only, whatever earlier runs
\* on the same orchestrator saw.
C40_RunStartsFromEmptyEngine ==
    \A r \in Requests :
        (runs[r].pc = "done" /\ runs[r].alone)
            => LET e == MergedFrom(Engine(<<>>, {}, 0), runs[r].lists, r, 1)
               IN  /\ runs[r].got = e.papers
                   /\ runs[r].stats = DedupStats(e)

\* two runs one after the other were given the same paper: the second one
\* collected it, with no duplicate counted
C40_Witness ==
    /\ \A r \in {1, 2} :
        /\ runs[r].pc = "done"
        /\ runs[r].alone
        /\ runs[r].lists = << <<PaperA>> >>
    /\ runs[2].got = Tag(<<PaperA>>, 2)
    /\ runs[2].stats.unique_papers = 1
    /\ runs[2].stats.duplicates_rejected = 0
    /\ d_papers = runs[2].got

====
